---- MODULE Spec2Model ----
(***************************************************************************)
(* Model of the nested boolean filter evaluator of src/data_utils.py       *)
(* (filter_df_nested, _eval_node) over a small pandas-like table, and of   *)
(* the column coercion of src/utils.py (coerce_dtypes, _to_date_series,    *)
(* _parse_excel_serial_date).                                              *)
(*                                                                         *)
(* Python values are tagged records [t, v]; text is a sequence of          *)
(* one-character strings so that lower(), strip(), substring search and    *)
(* lexicographic order are computed rather than assumed.  A mask is a      *)
(* sequence over {"True", "False", "NA"} (pandas' nullable boolean).       *)
(***************************************************************************)
EXTENDS Integers, Sequences, FiniteSets, TLC

VARIABLES df, filters, case_insensitive, pc, result,
          heap, out_df, dtype_map, on_missing, item, raw_val,
          sf, tree, sf_pc, btn, canvas, events, calls

\* the arguments of the filter calls
fvars == <<df, filters, case_insensitive>>

\* the state of the coercion calls: the tables by object identity, the
\* working copy "out", the remaining arguments, the position in dtype_map,
\* and the argument "val" of _parse_excel_serial_date
cvars == <<heap, out_df, dtype_map, on_missing, item, raw_val>>

\* the widgets: the TreeviewSortFilter object, the rows its tree shows and
\* the method it ran last; the RoundedButton object, the fill colour on its
\* canvas, the events it received and the positions of those that ran the
\* command
gvars == <<sf, tree, sf_pc, btn, canvas, events, calls>>

vars == <<df, filters, case_insensitive, pc, result,
          heap, out_df, dtype_map, on_missing, item, raw_val,
          sf, tree, sf_pc, btn, canvas, events, calls>>

\* no widget has been built
NoWidgets ==
  /\ sf = <<>>
  /\ tree = <<>>
  /\ sf_pc = "none"
  /\ btn = <<>>
  /\ canvas = ""
  /\ events = <<>>
  /\ calls = <<>>

----------------------------------------------------------------------------
(* Bounds of the model *)

MaxRows == 2

MaxChildren == 2

----------------------------------------------------------------------------
(* Text: str.lower(), str.strip(), str(), ordering *)

UpperAlpha ==
  <<"A","B","C","D","E","F","G","H","I","J","K","L","M",
    "N","O","P","Q","R","S","T","U","V","W","X","Y","Z">>

LowerAlpha ==
  <<"a","b","c","d","e","f","g","h","i","j","k","l","m",
    "n","o","p","q","r","s","t","u","v","w","x","y","z">>

Whitespace == {" ", "\t", "\n"}

\* the characters of the model in code-point order
CodePoints ==
  <<"\t", "\n", " ", "!", "0","1","2","3","4","5","6","7","8","9",
    "<", "=", ">">> \o UpperAlpha \o <<"_">> \o LowerAlpha

Digits == <<"0","1","2","3","4","5","6","7","8","9">>

LowerChar(c) ==
  IF \E i \in 1..Len(UpperAlpha) : UpperAlpha[i] = c
  THEN LowerAlpha[CHOOSE i \in 1..Len(UpperAlpha) : UpperAlpha[i] = c]
  ELSE c

\* str.lower()
Lower(s) == [i \in 1..Len(s) |-> LowerChar(s[i])]

RECURSIVE LStrip(_)
LStrip(s) ==
  IF s # <<>> /\ Head(s) \in Whitespace THEN LStrip(Tail(s)) ELSE s

RECURSIVE RStrip(_)
RStrip(s) ==
  IF s # <<>> /\ s[Len(s)] \in Whitespace
  THEN RStrip(SubSeq(s, 1, Len(s) - 1))
  ELSE s

\* str.strip()
Strip(s) == RStrip(LStrip(s))

\* str.upper() of the lowercase key names "and", "or", "not"
UpperChar(c) ==
  IF \E i \in 1..Len(LowerAlpha) : LowerAlpha[i] = c
  THEN UpperAlpha[CHOOSE i \in 1..Len(LowerAlpha) : LowerAlpha[i] = c]
  ELSE c

Upper(s) == [i \in 1..Len(s) |-> UpperChar(s[i])]

CodePoint(c) == CHOOSE i \in 1..Len(CodePoints) : CodePoints[i] = c

RECURSIVE StrLt(_, _)
\* Python's a < b on str: lexicographic by code point
StrLt(a, b) ==
  IF b = <<>> THEN FALSE
  ELSE IF a = <<>> THEN TRUE
  ELSE IF Head(a) = Head(b) THEN StrLt(Tail(a), Tail(b))
  ELSE CodePoint(Head(a)) < CodePoint(Head(b))

RECURSIVE NatToStr(_)
NatToStr(n) ==
  IF n < 10 THEN <<Digits[n + 1]>>
  ELSE NatToStr(n \div 10) \o <<Digits[(n % 10) + 1]>>

\* str(n) of an int
IntToStr(n) == IF n < 0 THEN <<"-">> \o NatToStr(0 - n) ELSE NatToStr(n)

\* str(f) of a float held in tenths
FloatToStr(f) ==
  LET a == IF f < 0 THEN 0 - f ELSE f
  IN  (IF f < 0 THEN <<"-">> ELSE <<>>)
      \o NatToStr(a \div 10) \o <<".">> \o NatToStr(a % 10)

StartsWith(s, p) == Len(p) <= Len(s) /\ SubSeq(s, 1, Len(p)) = p

EndsWith(s, p) ==
  Len(p) <= Len(s) /\ SubSeq(s, Len(s) - Len(p) + 1, Len(s)) = p

\* literal substring search (regex=False)
Contains(s, p) ==
  \E i \in 0..(Len(s) - Len(p)) : SubSeq(s, i + 1, i + Len(p)) = p

----------------------------------------------------------------------------
(* Python values *)

None == [t |-> "none", v |-> 0]

IntV(n) == [t |-> "int", v |-> n]

StrV(s) == [t |-> "str", v |-> s]

ListV(xs) == [t |-> "list", v |-> xs]

\* a dict: v is a function from keys (text) to values
DictV(d) == [t |-> "dict", v |-> d]

EmptyDict == DictV([k \in {} |-> None])

\* dict.get(key) with default None
Get(node, key) == IF key \in DOMAIN node.v THEN node.v[key] ELSE None

\* mutant of Truthy: only None counts as "no filter" (if filters is None)
TruthyNotNone(x) == x.t # "none"

\* truth value of an object, as tested by "if not filters"
Truthy(x) ==
  CASE x.t = "none" -> FALSE
    [] x.t = "int"  -> x.v # 0
    [] x.t = "str"  -> x.v # <<>>
    [] x.t = "list" -> x.v # <<>>
    [] x.t = "dict" -> DOMAIN x.v # {}

\* repr(x) of a list element: text in quotes, a number as its digits
Repr(x) ==
  CASE x.t = "str"  -> <<"'">> \o x.v \o <<"'">>
    [] x.t = "int"  -> IntToStr(x.v)
    [] x.t = "none" -> <<"N","o","n","e">>

RECURSIVE JoinRepr(_)
\* ", ".join(repr(e) for e in xs)
JoinRepr(xs) ==
  IF xs = <<>> THEN <<>>
  ELSE IF Len(xs) = 1 THEN Repr(xs[1])
  ELSE Repr(xs[1]) \o <<",", " ">> \o JoinRepr(Tail(xs))

\* str(x) for the values a leaf carries
ToStr(x) ==
  CASE x.t = "str"  -> x.v
    [] x.t = "list" -> <<"[">> \o JoinRepr(x.v) \o <<"]">>
    [] x.t = "int"  -> IntToStr(x.v)
    [] x.t = "none" -> <<"N","o","n","e">>
    [] x.t = "float" -> FloatToStr(x.v)
    [] x.t = "nan"  -> <<"n","a","n">>
    [] x.t = "bool" -> IF x.v THEN <<"T","r","u","e">>
                       ELSE <<"F","a","l","s","e">>

----------------------------------------------------------------------------
(* Text literals of the source *)

k_and == <<"a","n","d">>

k_or == <<"o","r">>

k_not == <<"n","o","t">>

k_col == <<"c","o","l">>

k_op == <<"o","p">>

k_value == <<"v","a","l","u","e">>

op_eq == <<"=","=">>

op_ne == <<"!","=">>

op_gt == <<">">>

op_ge == <<">","=">>

op_lt == <<"<">>

op_le == <<"<","=">>

op_contains == <<"c","o","n","t","a","i","n","s">>

op_not_contains == <<"n","o","t","_","c","o","n","t","a","i","n","s">>

op_startswith == <<"s","t","a","r","t","s","w","i","t","h">>

op_endswith == <<"e","n","d","s","w","i","t","h">>

op_isnull == <<"i","s","n","u","l","l">>

op_is_null == <<"i","s","_","n","u","l","l">>

op_notnull == <<"n","o","t","n","u","l","l">>

op_not_null == <<"n","o","t","_","n","u","l","l">>

op_in == <<"i","n">>

op_isin == <<"i","s","i","n">>

op_not_in == <<"n","o","t","_","i","n">>

op_notin == <<"n","o","t","i","n">>

op_between == <<"b","e","t","w","e","e","n">>

_OPS == {op_eq, op_ne, op_gt, op_ge, op_lt, op_le}

_STRING_OPS == {op_contains, op_not_contains, op_startswith, op_endswith}

_NULL_OPS == {op_isnull, op_is_null, op_notnull, op_not_null}

_SET_OPS == {op_in, op_isin, op_not_in, op_notin}

_RANGE_OPS == {op_between}

----------------------------------------------------------------------------
(* Masks: pandas boolean Series with Kleene logic on missing entries *)

NA == "NA"

B(b) == IF b THEN "True" ELSE "False"

\* mutant of Not3: a missing entry is negated as if it were False
Not3TwoValued(x) == IF x = "True" THEN "False" ELSE "True"

\* ~m
Not3(x) == CASE x = "True" -> "False" [] x = "False" -> "True" [] x = NA -> NA

\* a & b
And3(x, y) ==
  IF x = "False" \/ y = "False" THEN "False"
  ELSE IF x = NA \/ y = NA THEN NA
  ELSE "True"

\* a | b
Or3(x, y) ==
  IF x = "True" \/ y = "True" THEN "True"
  ELSE IF x = NA \/ y = NA THEN NA
  ELSE "False"

MaskNot(m) == [i \in 1..Len(m) |-> Not3(m[i])]

MaskAnd(m1, m2) == [i \in 1..Len(m1) |-> And3(m1[i], m2[i])]

MaskOr(m1, m2) == [i \in 1..Len(m1) |-> Or3(m1[i], m2[i])]

----------------------------------------------------------------------------
(* Outcomes of a call: a value, or a raised exception *)

Msg(text, args) == [text |-> text, args |-> args]

NoMsg == Msg("", <<>>)

Ok(mask) == [kind |-> "ok", mask |-> mask, msg |-> NoMsg]

Raise(kind, text, args) ==
  [kind |-> kind, mask |-> <<>>, msg |-> Msg(text, args)]

----------------------------------------------------------------------------
(* The table: named columns with a dtype, rows with index labels *)

Column(d, c) == [i \in 1..Len(d.rows) |-> d.rows[i][c]]

HasColumn(d, c) == \E i \in 1..Len(d.columns) : d.columns[i] = c

\* Series.isna()
IsNaSeries(s) == [i \in 1..Len(s) |-> B(s[i].t = "none")]

\* Series.isin(vals)
IsInSeries(s, vals) ==
  [i \in 1..Len(s) |-> B(\E j \in 1..Len(vals) : vals[j] = s[i])]

\* Series.astype("string"): text, missing stays missing
AsString(x) ==
  IF x.t \in {"none", "nan", "nat"} THEN None ELSE StrV(ToStr(x))

\* one Python comparison between two scalars of the same type
PyCompare(op, a, b) ==
  CASE op = op_eq -> a = b
    [] op = op_ne -> a # b
    [] op = op_lt -> IF a.t = "int" THEN a.v < b.v ELSE StrLt(a.v, b.v)
    [] op = op_le -> IF a.t = "int" THEN a.v <= b.v
                     ELSE (a.v = b.v \/ StrLt(a.v, b.v))
    [] op = op_gt -> IF a.t = "int" THEN a.v > b.v ELSE StrLt(b.v, a.v)
    [] op = op_ge -> IF a.t = "int" THEN a.v >= b.v
                     ELSE (a.v = b.v \/ StrLt(b.v, a.v))

Ordering == {op_lt, op_le, op_gt, op_ge}

\* op(Series, scalar) as pandas evaluates it for an int64, object or string
\* column
SeriesCompare(op, s, dtype, val) ==
  CASE val.t = "list" /\ Len(val.v) # Len(s) ->
         \* a list is compared element by element and must be as long as
         \* the column
         Raise("ValueError", "Lengths must match to compare", <<>>)
    [] val.t # "list" /\ dtype = "string" ->
         \* a string column compares its present cells and answers NA for
         \* the others; ordering text against a number raises
         IF val.t = "none" THEN Ok([i \in 1..Len(s) |-> NA])
         ELSE IF val.t = "int" /\ op \in Ordering
                 /\ \E i \in 1..Len(s) : s[i].t # "none"
         THEN Raise("TypeError", "not supported between instances", <<val>>)
         ELSE Ok([i \in 1..Len(s) |->
                    IF s[i].t = "none" THEN NA
                    ELSE IF s[i].t # val.t THEN B(op = op_ne)
                    ELSE B(PyCompare(op, s[i], val))])
    [] dtype # "string" /\ val.t = "none" ->
         \* comparison with None: nothing equals it, nothing is ordered
         Ok([i \in 1..Len(s) |-> B(op = op_ne)])
    [] val.t = "str" /\ dtype = "int64" ->
         \* numeric column against text: == / != answer, ordering raises
         IF op \in Ordering
         THEN Raise("TypeError", "Invalid comparison between dtype and str",
                    <<val>>)
         ELSE Ok([i \in 1..Len(s) |-> B(op = op_ne)])
    [] val.t = "int" /\ dtype = "int64" ->
         Ok([i \in 1..Len(s) |-> B(PyCompare(op, s[i], val))])
    [] val.t \in {"int", "str"} /\ dtype = "object" ->
         \* element by element; a missing cell never compares, and
         \* ordering two different types raises
         IF op \in Ordering
            /\ \E i \in 1..Len(s) : s[i].t # "none" /\ s[i].t # val.t
         THEN Raise("TypeError", "not supported between instances", <<val>>)
         ELSE Ok([i \in 1..Len(s) |->
                    IF s[i].t = "none" THEN B(op = op_ne)
                    ELSE IF s[i].t # val.t THEN B(op = op_ne)
                    ELSE B(PyCompare(op, s[i], val))])

\* mutant of Between: the upper bound is exclusive
BetweenExclusiveHigh(s, dtype, low, high) ==
  LET lmask == SeriesCompare(op_ge, s, dtype, low)
      rmask == SeriesCompare(op_lt, s, dtype, high)
  IN  IF lmask.kind # "ok" THEN lmask
      ELSE IF rmask.kind # "ok" THEN rmask
      ELSE Ok(MaskAnd(lmask.mask, rmask.mask))

\* Series.between(low, high, inclusive="both") == (s >= low) & (s <= high)
Between(s, dtype, low, high) ==
  LET lmask == SeriesCompare(op_ge, s, dtype, low)
      rmask == SeriesCompare(op_le, s, dtype, high)
  IN  IF lmask.kind # "ok" THEN lmask
      ELSE IF rmask.kind # "ok" THEN rmask
      ELSE Ok(MaskAnd(lmask.mask, rmask.mask))

\* op(string Series, scalar): missing on either side gives NA
StringCompare(op, left, right) ==
  Ok([i \in 1..Len(left) |->
        IF left[i].t = "none" \/ right.t = "none" THEN NA
        ELSE B(PyCompare(op, left[i], right))])

\* s_str.str.<method>(needle, na=False)
StrMatch(method, s_str, needle) ==
  [i \in 1..Len(s_str) |->
     IF s_str[i].t = "none" THEN "False"
     ELSE B(CASE method = op_contains   -> Contains(s_str[i].v, needle)
              [] method = op_startswith -> StartsWith(s_str[i].v, needle)
              [] method = op_endswith   -> EndsWith(s_str[i].v, needle))]

----------------------------------------------------------------------------
(* _eval_node: one filter node to a mask, or an exception *)

\* keys = {k.lower().strip() for k in node.keys()}
NormKeys(node) == {Strip(Lower(k)) : k \in DOMAIN node.v}

\* the value under the literal key, else under its upper-case spelling
KeyOrUpper(node, key) ==
  IF key \in DOMAIN node.v THEN Get(node, key) ELSE Get(node, Upper(key))

Visit(r, visited) ==
  [kind |-> r.kind, mask |-> r.mask, msg |-> r.msg, visited |-> visited]

RECURSIVE FoldMasksAlwaysAnd(_, _, _)
\* mutant of FoldMasks: the combinator is ignored and every fold is an AND
FoldMasksAlwaysAnd(group_key, out, rest) ==
  IF rest = <<>> THEN out
  ELSE FoldMasksAlwaysAnd(group_key, MaskAnd(out, Head(rest)), Tail(rest))

RECURSIVE FoldMasks(_, _, _)
\* out = masks[0]; for m in masks[1:]: out = out & m  (or out | m)
FoldMasks(group_key, out, rest) ==
  IF rest = <<>> THEN out
  ELSE FoldMasks(group_key,
                 IF group_key = k_and THEN MaskAnd(out, Head(rest))
                 ELSE MaskOr(out, Head(rest)),
                 Tail(rest))

\* mutant of OpNorm: the operator is lowercased but not trimmed
OpNormNoStrip(op) == Lower(ToStr(op))

\* op_norm = str(op).lower().strip()
OpNorm(op) == Strip(Lower(ToStr(op)))

\* mutant of SetValues: a text value is iterated, giving its characters
SetValuesChars(val) ==
  IF val.t = "str" THEN [i \in 1..Len(val.v) |-> StrV(<<val.v[i]>>)]
  ELSE val.v

\* vals = list(val) if not isinstance(val, (str, bytes)) else [val]
SetValues(val) == IF val.t = "str" THEN <<val>> ELSE val.v

\* the operator dispatch of a leaf rule on a column the table has
LeafOp(d, col, op, val, ci) ==
  LET s       == Column(d, col.v)
      dtype   == d.dtypes[col.v]
      op_norm == OpNorm(op)
  IN
  IF op_norm \in _NULL_OPS THEN
    IF op_norm \in {op_isnull, op_is_null}
    THEN Ok(IsNaSeries(s))
    ELSE Ok(MaskNot(IsNaSeries(s)))
  ELSE IF op_norm \in _SET_OPS THEN
    IF val.t = "none"
    THEN Raise("ValueError", "Operator requires a list/iterable value",
               <<op, col>>)
    ELSE IF val.t = "int"
    THEN Raise("TypeError", "object is not iterable", <<val>>)
    ELSE
      LET vals == SetValues(val)
      IN  IF op_norm \in {op_in, op_isin}
          THEN Ok(IsInSeries(s, vals))
          ELSE Ok(MaskNot(IsInSeries(s, vals)))
  ELSE IF op_norm \in _RANGE_OPS THEN
    IF ~(val.t = "list" /\ Len(val.v) = 2)
    THEN Raise("ValueError", "Operator 'between' requires value [low, high]",
               <<col>>)
    ELSE Between(s, dtype, val.v[1], val.v[2])
  ELSE IF op_norm \in _STRING_OPS THEN
    IF val.t = "none"
    THEN Raise("ValueError", "Operator requires a value", <<op, col>>)
    ELSE
      LET s_str0 == [i \in 1..Len(s) |-> AsString(s[i])]
          s_str  == IF ci
                    THEN [i \in 1..Len(s) |->
                            IF s_str0[i].t = "none" THEN None
                            ELSE StrV(Lower(s_str0[i].v))]
                    ELSE s_str0
          needle == IF ci THEN Lower(ToStr(val)) ELSE ToStr(val)
      IN  IF op_norm = op_contains
          THEN Ok(StrMatch(op_contains, s_str, needle))
          ELSE IF op_norm = op_not_contains
          THEN Ok(MaskNot(StrMatch(op_contains, s_str, needle)))
          ELSE IF op_norm = op_startswith
          THEN Ok(StrMatch(op_startswith, s_str, needle))
          ELSE Ok(StrMatch(op_endswith, s_str, needle))
  ELSE IF op_norm \in _OPS THEN
    IF ci /\ op_norm \in {op_eq, op_ne} /\ dtype = "object"
    THEN
      LET left  == [i \in 1..Len(s) |->
                      IF s[i].t = "none" THEN None
                      ELSE StrV(Lower(ToStr(s[i])))]
          right == IF val.t # "none" THEN StrV(Lower(ToStr(val))) ELSE val
      IN  StringCompare(op_norm, left, right)
    ELSE SeriesCompare(op_norm, s, dtype, val)
  ELSE Raise("ValueError", "Unsupported operator: ", <<op>>)

\* mutant of Leaf: the operator is validated before the column is looked up
LeafOperatorFirst(d, node, ci) ==
  LET col == Get(node, k_col)
      op  == Get(node, k_op)
      val == Get(node, k_value)
  IN
  IF col.t = "none" \/ op.t = "none"
  THEN Raise("ValueError", "Leaf rule must include 'col' and 'op'", <<>>)
  ELSE IF Strip(Lower(ToStr(op))) \notin
            (_NULL_OPS \cup _SET_OPS \cup _RANGE_OPS \cup _STRING_OPS
             \cup _OPS)
  THEN Raise("ValueError", "Unsupported operator: ", <<op>>)
  ELSE IF col.t \in {"list", "dict"}
  THEN Raise("TypeError", "unhashable type", <<col>>)
  ELSE IF ~(col.t = "str" /\ HasColumn(d, col.v))
  THEN Raise("KeyError", "Column not found: ", <<col>>)
  ELSE LeafOp(d, col, op, val, ci)

\* mutant of Leaf: the column is looked up before 'col' and 'op' are
\* required
LeafColumnFirst(d, node, ci) ==
  LET col == Get(node, k_col)
      op  == Get(node, k_op)
      val == Get(node, k_value)
  IN
  IF col.t \in {"list", "dict"}
  THEN Raise("TypeError", "unhashable type", <<col>>)
  ELSE IF ~(col.t = "str" /\ HasColumn(d, col.v))
  THEN Raise("KeyError", "Column not found: ", <<col>>)
  ELSE IF op.t = "none"
  THEN Raise("ValueError", "Leaf rule must include 'col' and 'op'", <<>>)
  ELSE LeafOp(d, col, op, val, ci)

\* the leaf rule: col, op, value against one column of the table
Leaf(d, node, ci) ==
  LET col == Get(node, k_col)
      op  == Get(node, k_op)
      val == Get(node, k_value)
  IN
  IF col.t = "none" \/ op.t = "none"
  THEN Raise("ValueError", "Leaf rule must include 'col' and 'op'", <<>>)
  ELSE IF col.t \in {"list", "dict"}
  THEN Raise("TypeError", "unhashable type", <<col>>)
  ELSE IF ~(col.t = "str" /\ HasColumn(d, col.v))
  THEN Raise("KeyError", "Column not found: ", <<col>>)
  ELSE LeafOp(d, col, op, val, ci)

RECURSIVE _eval_node(_, _, _), EvalChildren(_, _, _),
          EvalChildrenLastError(_, _, _)

\* mutant of EvalChildren: every child is evaluated and the error of the
\* last invalid one is raised
EvalChildrenLastError(d, children, ci) ==
  IF children = <<>>
  THEN [kind |-> "ok", masks |-> <<>>, msg |-> NoMsg, visited |-> <<>>]
  ELSE
    LET first == _eval_node(d, Head(children), ci)
        rest  == EvalChildrenLastError(d, Tail(children), ci)
    IN  IF rest.kind # "ok"
        THEN [kind |-> rest.kind, masks |-> <<>>, msg |-> rest.msg,
              visited |-> first.visited \o rest.visited]
        ELSE IF first.kind # "ok"
        THEN [kind |-> first.kind, masks |-> <<>>, msg |-> first.msg,
              visited |-> first.visited \o rest.visited]
        ELSE [kind |-> "ok", masks |-> <<first.mask>> \o rest.masks,
              msg |-> NoMsg,
              visited |-> first.visited \o rest.visited]

\* [_eval_node(df, c, ...) for c in children]: in list order, stopping at
\* the first child that raises
EvalChildren(d, children, ci) ==
  IF children = <<>>
  THEN [kind |-> "ok", masks |-> <<>>, msg |-> NoMsg, visited |-> <<>>]
  ELSE
    LET first == _eval_node(d, Head(children), ci)
    IN  IF first.kind # "ok"
        THEN [kind |-> first.kind, masks |-> <<>>, msg |-> first.msg,
              visited |-> first.visited]
        ELSE
          LET rest == EvalChildren(d, Tail(children), ci)
          IN  IF rest.kind # "ok"
              THEN [kind |-> rest.kind, masks |-> <<>>, msg |-> rest.msg,
                    visited |-> first.visited \o rest.visited]
              ELSE [kind |-> "ok", masks |-> <<first.mask>> \o rest.masks,
                    msg |-> NoMsg,
                    visited |-> first.visited \o rest.visited]

\* mutant of GroupFold: an empty children list folds to the all-True mask
GroupFoldEmptyIsTrue(d, node, group_key, ci) ==
  LET children == KeyOrUpper(node, group_key)
  IN
  IF children.t = "none"
  THEN Visit(Raise("ValueError", "Group node must have a list of children.",
                   <<StrV(group_key)>>), <<node>>)
  ELSE IF children.t # "list"
  THEN Visit(Raise("ValueError", "Group node must be a non-empty list.",
                   <<StrV(group_key)>>), <<node>>)
  ELSE IF Len(children.v) = 0
  THEN Visit(Ok([i \in 1..Len(d.rows) |-> "True"]), <<node>>)
  ELSE
  LET cm == EvalChildren(d, children.v, ci)
  IN  IF cm.kind # "ok"
      THEN [kind |-> cm.kind, mask |-> <<>>, msg |-> cm.msg,
            visited |-> <<node>> \o cm.visited]
      ELSE Visit(Ok(FoldMasks(group_key, cm.masks[1], Tail(cm.masks))),
                 <<node>> \o cm.visited)

\* a group with its one combinator key: the children, then the fold
GroupFold(d, node, group_key, ci) ==
  LET children == KeyOrUpper(node, group_key)
  IN
  IF children.t = "none"
  THEN Visit(Raise("ValueError", "Group node must have a list of children.",
                   <<StrV(group_key)>>), <<node>>)
  ELSE IF children.t # "list" \/ Len(children.v) = 0
  THEN Visit(Raise("ValueError", "Group node must be a non-empty list.",
                   <<StrV(group_key)>>), <<node>>)
  ELSE
  LET cm == EvalChildren(d, children.v, ci)
  IN  IF cm.kind # "ok"
      THEN [kind |-> cm.kind, mask |-> <<>>, msg |-> cm.msg,
            visited |-> <<node>> \o cm.visited]
      ELSE Visit(Ok(FoldMasks(group_key, cm.masks[1], Tail(cm.masks))),
                 <<node>> \o cm.visited)

\* mutant of Group: with both combinators present, 'and' silently wins
GroupPrefersAnd(d, node, ci) ==
  GroupFold(d, node, IF k_and \in NormKeys(node) THEN k_and ELSE k_or, ci)

\* the group branch: {"and": [...]} or {"or": [...]}
Group(d, node, ci) ==
  LET keys == NormKeys(node)
  IN
  IF k_and \in keys /\ k_or \in keys
  THEN Visit(Raise("ValueError",
                   "Node cannot contain both 'and' and 'or' keys.", <<>>),
             <<node>>)
  ELSE GroupFold(d, node, IF k_and \in keys THEN k_and ELSE k_or, ci)

\* mutant of Negation: the list form negates each child and ANDs the results
NegationEachChild(d, node, ci) ==
  LET child == KeyOrUpper(node, k_not)
  IN
  IF child.t = "none"
  THEN Visit(Raise("ValueError",
                   "NOT node must have a child node or list of nodes.", <<>>),
             <<node>>)
  ELSE IF child.t = "list" THEN
    IF Len(child.v) = 0
    THEN Visit(Raise("ValueError", "NOT with a list must be non-empty.", <<>>),
               <<node>>)
    ELSE
      LET cm == EvalChildren(d, child.v, ci)
          nm == [i \in 1..Len(cm.masks) |-> MaskNot(cm.masks[i])]
      IN  IF cm.kind # "ok"
          THEN [kind |-> cm.kind, mask |-> <<>>, msg |-> cm.msg,
                visited |-> <<node>> \o cm.visited]
          ELSE Visit(Ok(FoldMasks(k_and, nm[1], Tail(nm))),
                     <<node>> \o cm.visited)
  ELSE
    LET r == _eval_node(d, child, ci)
    IN  IF r.kind # "ok"
        THEN Visit(r, <<node>> \o r.visited)
        ELSE Visit(Ok(MaskNot(r.mask)), <<node>> \o r.visited)

\* the negation branch: {"not": node} or {"not": [...]}
Negation(d, node, ci) ==
  LET child == KeyOrUpper(node, k_not)
  IN
  IF child.t = "none"
  THEN Visit(Raise("ValueError",
                   "NOT node must have a child node or list of nodes.", <<>>),
             <<node>>)
  ELSE IF child.t = "list" THEN
    IF Len(child.v) = 0
    THEN Visit(Raise("ValueError", "NOT with a list must be non-empty.", <<>>),
               <<node>>)
    ELSE
      LET cm == EvalChildren(d, child.v, ci)
      IN  IF cm.kind # "ok"
          THEN [kind |-> cm.kind, mask |-> <<>>, msg |-> cm.msg,
                visited |-> <<node>> \o cm.visited]
          ELSE Visit(Ok(MaskNot(FoldMasks(k_and, cm.masks[1],
                                          Tail(cm.masks)))),
                     <<node>> \o cm.visited)
  ELSE
    LET r == _eval_node(d, child, ci)
    IN  IF r.kind # "ok"
        THEN Visit(r, <<node>> \o r.visited)
        ELSE Visit(Ok(MaskNot(r.mask)), <<node>> \o r.visited)

\* mutant of _eval_node: the 'not' key is looked for before the group keys
EvalNodeNotFirst(d, node, ci) ==
  IF node.t # "dict"
  THEN Visit(Raise("TypeError", "Each node must be a dict. Got: ",
                   <<[t |-> "type", v |-> node.t]>>), <<node>>)
  ELSE IF k_not \in NormKeys(node)
  THEN Negation(d, node, ci)
  ELSE IF k_and \in NormKeys(node) \/ k_or \in NormKeys(node)
  THEN Group(d, node, ci)
  ELSE Visit(Leaf(d, node, ci), <<node>>)

\* visited lists, in call order, the nodes _eval_node was entered with
_eval_node(d, node, ci) ==
  IF node.t # "dict"
  THEN Visit(Raise("TypeError", "Each node must be a dict. Got: ",
                   <<[t |-> "type", v |-> node.t]>>), <<node>>)
  ELSE IF k_and \in NormKeys(node) \/ k_or \in NormKeys(node)
  THEN Group(d, node, ci)
  ELSE IF k_not \in NormKeys(node)
  THEN Negation(d, node, ci)
  ELSE Visit(Leaf(d, node, ci), <<node>>)

\* df[mask]: the rows whose mask entry is True (NA selects nothing)
RECURSIVE SelectRows(_, _)
SelectRows(xs, mask) ==
  IF xs = <<>> THEN <<>>
  ELSE IF Head(mask) = "True"
       THEN <<Head(xs)>> \o SelectRows(Tail(xs), Tail(mask))
       ELSE SelectRows(Tail(xs), Tail(mask))

\* mutant of BoolIndex: a missing mask entry selects its row
BoolIndexNotFalse(d, mask) ==
  LET m == [i \in 1..Len(mask) |-> IF mask[i] = "False" THEN "False" ELSE "True"]
  IN  [columns |-> d.columns, dtypes |-> d.dtypes,
       index |-> SelectRows(d.index, m), rows |-> SelectRows(d.rows, m)]

BoolIndex(d, mask) ==
  [columns |-> d.columns, dtypes |-> d.dtypes,
   index |-> SelectRows(d.index, mask), rows |-> SelectRows(d.rows, mask)]

filter_df_nested(d, f, ci) ==
  IF ~Truthy(f)
  THEN [kind |-> "ok", out |-> d, msg |-> NoMsg, visited |-> <<>>]
  ELSE
    LET r == _eval_node(d, f, ci)
    IN  IF r.kind # "ok"
        THEN [kind |-> r.kind, out |-> None, msg |-> r.msg,
              visited |-> r.visited]
        ELSE [kind |-> "ok", out |-> BoolIndex(d, r.mask), msg |-> NoMsg,
              visited |-> r.visited]

----------------------------------------------------------------------------
(* The inputs: tables *)

c_age == <<"a","g","e">>

c_name == <<"n","a","m","e">>

c_zzz == <<"z","z","z">>

SeqsUpTo(S, n) == UNION {[1..k -> S] : k \in 0..n}

MkTable(columns, dtypes, rows) ==
  [columns |-> columns, dtypes |-> dtypes,
   index |-> [i \in 1..Len(rows) |-> i - 1], rows |-> rows]

\* an int64 column "age" and an object column "name" with missing values
PeopleRows ==
  { (c_age :> IntV(5)) @@ (c_name :> None),
    (c_age :> IntV(10)) @@ (c_name :> StrV(<<"B","o","b">>)) }

PeopleTables ==
  {MkTable(<<c_age, c_name>>,
           (c_age :> "int64") @@ (c_name :> "object"), rows) :
     rows \in SeqsUpTo(PeopleRows, MaxRows)}

\* a table without the "name" column
AgeRows == {(c_age :> IntV(5))}

AgeTables ==
  {MkTable(<<c_age>>, (c_age :> "int64"), rows) :
     rows \in SeqsUpTo(AgeRows, MaxRows)}

\* three fixed rows: ages 5, 10, 15, and a "name" column of the string
\* dtype (what astype("string") gives) holding a word, a missing cell and
\* a single letter
TextRows ==
  << (c_age :> IntV(5)) @@ (c_name :> StrV(<<"B","o","b">>)),
     (c_age :> IntV(10)) @@ (c_name :> None),
     (c_age :> IntV(15)) @@ (c_name :> StrV(<<"B">>)) >>

TextTables ==
  {MkTable(<<c_age, c_name>>,
           (c_age :> "int64") @@ (c_name :> "string"), TextRows)}

Tables == PeopleTables \cup AgeTables \cup TextTables

----------------------------------------------------------------------------
(* The inputs: filter trees *)

LeafNode(col, op, val) ==
  DictV((k_col :> col) @@ (k_op :> op) @@ (k_value :> val))

LeafNoValue(col, op) == DictV((k_col :> col) @@ (k_op :> op))

Node1(key, val) == DictV(key :> val)

Node2(key1, val1, key2, val2) == DictV((key1 :> val1) @@ (key2 :> val2))

s_Bob == StrV(<<"B","o","b">>)

s_BOB == StrV(<<"B","O","B">>)

s_bo == StrV(<<"b","o">>)

s_bogus == StrV(<<"b","o","g","u","s">>)

\* every leaf family with its value absent, None, well-formed and malformed
ComparisonLeaves ==
  {LeafNode(StrV(c), StrV(o), v) :
     c \in {c_age, c_name}, o \in _OPS,
     v \in {None, IntV(10), s_Bob, s_BOB}}
  \cup {LeafNoValue(StrV(c), StrV(o)) : c \in {c_age, c_name}, o \in _OPS}

NullLeaves ==
  {LeafNode(StrV(c), StrV(o), v) :
     c \in {c_age, c_name}, o \in _NULL_OPS, v \in {None, IntV(10)}}
  \cup {LeafNoValue(StrV(c), StrV(o)) : c \in {c_age, c_name}, o \in _NULL_OPS}

SetLeaves ==
  {LeafNode(StrV(c), StrV(o), v) :
     c \in {c_age, c_name}, o \in _SET_OPS,
     v \in {None, IntV(10), s_Bob, ListV(<<IntV(5), s_Bob>>)}}
  \cup {LeafNoValue(StrV(c), StrV(o)) : c \in {c_age, c_name}, o \in _SET_OPS}

RangeLeaves ==
  {LeafNode(StrV(c), StrV(o), v) :
     c \in {c_age, c_name}, o \in _RANGE_OPS,
     v \in {None, IntV(10), ListV(<<IntV(5)>>), ListV(<<IntV(5), IntV(10)>>),
            ListV(<<IntV(10), IntV(15)>>), ListV(<<IntV(10), IntV(5)>>)}}
  \cup {LeafNoValue(StrV(c), StrV(o)) :
          c \in {c_age, c_name}, o \in _RANGE_OPS}

StringLeaves ==
  {LeafNode(StrV(c), StrV(o), v) :
     c \in {c_age, c_name}, o \in _STRING_OPS, v \in {None, IntV(10), s_bo}}
  \cup {LeafNoValue(StrV(c), StrV(o)) :
          c \in {c_age, c_name}, o \in _STRING_OPS}

\* leaves that are malformed, or spell the operator in another case
OddLeaves ==
  { LeafNode(StrV(c_age), s_bogus, IntV(10)),
    LeafNoValue(StrV(c_age), s_bogus),
    LeafNode(StrV(c_zzz), StrV(op_eq), IntV(10)),
    LeafNoValue(StrV(c_zzz), StrV(op_eq)),
    LeafNode(StrV(c_zzz), s_bogus, None),
    Node1(k_col, StrV(c_age)),
    Node1(k_col, StrV(c_zzz)),
    Node1(k_op, StrV(op_eq)),
    Node1(k_value, IntV(10)),
    LeafNode(StrV(c_age), StrV(<<" ","B","e","t","w","e","e","n"," ">>), ListV(<<IntV(5), IntV(10)>>)),
    LeafNode(StrV(c_name), StrV(<<"I","s","N","u","l","l">>), None),
    LeafNode(StrV(c_age), StrV(<<">","="," ">>), IntV(10)),
    LeafNode(StrV(c_age), StrV(<<" ","B","o","g","u","s"," ">>), IntV(10)) }

Leaves ==
  ComparisonLeaves \cup NullLeaves \cup SetLeaves \cup RangeLeaves
  \cup StringLeaves \cup OddLeaves

\* the children the composite nodes are built from: three leaves with
\* different masks and an unknown column
L_age == LeafNode(StrV(c_age), StrV(op_ge), IntV(10))

L_null == LeafNoValue(StrV(c_name), StrV(op_isnull))

L_bo == LeafNode(StrV(c_name), StrV(op_contains), s_bo)

L_zzz == LeafNode(StrV(c_zzz), StrV(op_eq), IntV(10))

L_bogus == LeafNode(StrV(c_age), s_bogus, IntV(10))

Children0 == {L_age, L_null, L_bo, L_zzz}

ChildLists(S) == SeqsUpTo(S, MaxChildren) \ {<<>>}

Groups(S) == {Node1(k, ListV(cs)) : k \in {k_and, k_or}, cs \in ChildLists(S)}

NotLists(S) == {Node1(k_not, ListV(cs)) : cs \in ChildLists(S)}

Nots(S) == {Node1(k_not, c) : c \in S}

\* the combinator and negation keys in other spellings
k_AND == <<"A","N","D">>

k_And == <<"A","n","d">>

k_and_sp == <<" ","a","n","d"," ">>

k_OR == <<"O","R">>

k_Or == <<"O","r">>

k_or_sp == <<" ","o","r"," ">>

k_NOT == <<"N","O","T">>

k_Not == <<"N","o","t">>

k_not_sp == <<" ","n","o","t"," ">>

KeySpellings ==
  {k_and, k_AND, k_And, k_and_sp, k_or, k_OR, k_Or, k_or_sp,
   k_not, k_NOT, k_Not, k_not_sp}

SpelledNodes ==
  {Node1(k, v) : k \in KeySpellings,
                 v \in {L_age, ListV(<<L_null, L_bo>>), ListV(<<>>)}}

\* nodes that are not well formed
BothNodes ==
  { Node2(k_and, ListV(<<L_age>>), k_or, ListV(<<L_null>>)),
    Node2(k_and, None, k_or, IntV(7)),
    Node2(k_AND, ListV(<<L_zzz>>), k_or_sp, ListV(<<>>)),
    Node2(k_And, ListV(<<IntV(7)>>), k_OR, ListV(<<L_bogus>>)) }

MalformedNodes ==
  { Node1(k_and, None), Node1(k_or, None), Node1(k_not, None),
    Node1(k_and, IntV(7)), Node1(k_or, L_age),
    Node1(k_and, ListV(<<>>)), Node1(k_or, ListV(<<>>)),
    Node1(k_not, ListV(<<>>)), Node1(k_NOT, ListV(<<>>)),
    Node1(k_AND, ListV(<<>>)), Node1(k_not, IntV(7)) }

Level1 ==
  Groups(Children0) \cup NotLists(Children0) \cup Nots(Children0)
  \cup SpelledNodes \cup BothNodes \cup MalformedNodes

\* children of the deeper trees: an unknown column, a group, a node with
\* both combinators, a non-dict
Children1 ==
  { L_zzz,
    Node1(k_and, ListV(<<L_age, L_null>>)),
    Node2(k_and, ListV(<<L_age>>), k_or, ListV(<<L_null>>)),
    IntV(7) }

Level2 ==
  Groups(Children1) \cup NotLists(Children1)
  \cup Nots(BothNodes \cup MalformedNodes \cup Nots(Children0))

\* double negations of leaves and of groups
EqualityLeaves ==
  {LeafNode(StrV(c_name), StrV(o), v) :
     o \in {op_eq, op_ne}, v \in {None, IntV(10), s_Bob}}

Level3 ==
  Nots(Nots(EqualityLeaves \cup Groups({L_age, L_null}) \cup {L_bogus}))

Filters ==
  {None, EmptyDict, IntV(7), ListV(<<>>)}
  \cup Leaves \cup Level1 \cup Level2 \cup Level3

----------------------------------------------------------------------------
(* The calls *)

NoResult == [kind |-> "none", visited |-> <<>>]

Init ==
  /\ df \in Tables
  /\ filters \in Filters
  /\ case_insensitive \in BOOLEAN
  /\ pc = "ready"
  /\ result = NoResult
  /\ heap = <<>>
  /\ out_df = 0
  /\ dtype_map = <<>>
  /\ on_missing = "ignore"
  /\ item = 0
  /\ raw_val = None
  /\ NoWidgets

\* out = filter_df_nested(df, filters, case_insensitive=...)
CallFilter ==
  /\ pc = "ready"
  /\ result' = filter_df_nested(df, filters, case_insensitive)
  /\ pc' = "filtered"
  /\ UNCHANGED gvars
  /\ UNCHANGED fvars
  /\ UNCHANGED cvars

\* mutant of CallEval: the evaluation empties the table it was given
CallEvalEmptiesTable ==
  /\ pc = "ready"
  /\ result' = _eval_node(df, filters, case_insensitive)
  /\ pc' = "evaluated"
  /\ df' = [df EXCEPT !.rows = <<>>, !.index = <<>>]
  /\ UNCHANGED gvars
  /\ UNCHANGED <<filters, case_insensitive>>
  /\ UNCHANGED cvars

\* mask = _eval_node(df, filters, case_insensitive=...)
CallEval ==
  /\ pc = "ready"
  /\ result' = _eval_node(df, filters, case_insensitive)
  /\ pc' = "evaluated"
  /\ UNCHANGED gvars
  /\ UNCHANGED fvars
  /\ UNCHANGED cvars

Next == CallFilter \/ CallEval

Spec == Init /\ [][Next]_vars

----------------------------------------------------------------------------
(* Properties *)

Rows == 1..Len(df.rows)

\* the mask _eval_node gives a node on the table of the current state
MaskOf(node) == _eval_node(df, node, case_insensitive).mask

Valid(node) == _eval_node(df, node, case_insensitive).kind = "ok"

\* row-by-row conjunction and disjunction of a set of mask entries
AllOf(S) ==
  IF "False" \in S THEN "False" ELSE IF NA \in S THEN NA ELSE "True"

AnyOf(S) ==
  IF "True" \in S THEN "True" ELSE IF NA \in S THEN NA ELSE "False"

\* the node has exactly the one key k
OnlyKey(node, k) == node.t = "dict" /\ DOMAIN node.v = {k}

\* C1: for a non-empty filter that evaluates without error,
\* filter_df_nested returns exactly the rows of the table whose mask entry is
\* True, in the table's order: the index labels of the result are strictly
\* increasing (no row twice, none reordered), they are the labels of the
\* selected rows, and each result row is the table's row with that label.
C1_SelectsMaskedRowsInOrder ==
  (pc = "filtered" /\ Truthy(filters) /\ result.kind = "ok") =>
    LET out == result.out
        m   == MaskOf(filters)
    IN  /\ out.columns = df.columns
        /\ Len(out.rows) = Len(out.index)
        /\ \A i, j \in 1..Len(out.index) :
             i < j => out.index[i] < out.index[j]
        /\ {out.index[i] : i \in 1..Len(out.index)}
             = {df.index[i] : i \in {r \in Rows : m[r] = "True"}}
        /\ \A i \in 1..Len(out.index) :
             \E r \in Rows :
               df.index[r] = out.index[i] /\ df.rows[r] = out.rows[i]

\* a proper, non-empty selection: the second of two rows is kept, and a
\* selection from a mask with a missing entry
C1_Witness ==
  /\ pc = "filtered" /\ Truthy(filters) /\ result.kind = "ok"
  /\ Len(df.rows) = 2
  /\ result.out.index = <<1>>
  /\ MaskOf(filters) = <<NA, "True">>

\* C2: filter_df_nested(T, None) and filter_df_nested(T, {}) return T
\* itself and enter _eval_node for no node, whatever columns T has.
C2_EmptyFilterIsIdentity ==
  (pc = "filtered" /\ filters \in {None, EmptyDict}) =>
    /\ result.kind = "ok"
    /\ result.out = df
    /\ result.visited = <<>>

C2_Witness ==
  /\ pc = "filtered" /\ filters = EmptyDict
  /\ df.columns = <<c_age>> /\ Len(df.rows) = 2
  /\ result.out = df

IsGroupOf(node, k) ==
  /\ OnlyKey(node, k)
  /\ node.v[k].t = "list"
  /\ node.v[k].v # <<>>
  /\ \A i \in 1..Len(node.v[k].v) : Valid(node.v[k].v[i])

\* C3: the mask of {and: children} is the row-by-row AND of the children's
\* masks and the mask of {or: children} their row-by-row OR, for a non-empty
\* list of valid children; with one child it is that child's mask.
C3_GroupIsRowwiseAndOr ==
  pc = "evaluated" =>
    /\ IsGroupOf(filters, k_and) =>
         LET cs == filters.v[k_and].v
         IN  /\ result.kind = "ok"
             /\ Len(result.mask) = Len(df.rows)
             /\ \A r \in Rows :
                  result.mask[r]
                    = AllOf({MaskOf(cs[i])[r] : i \in 1..Len(cs)})
             /\ Len(cs) = 1 => result.mask = MaskOf(cs[1])
    /\ IsGroupOf(filters, k_or) =>
         LET cs == filters.v[k_or].v
         IN  /\ result.kind = "ok"
             /\ Len(result.mask) = Len(df.rows)
             /\ \A r \in Rows :
                  result.mask[r]
                    = AnyOf({MaskOf(cs[i])[r] : i \in 1..Len(cs)})
             /\ Len(cs) = 1 => result.mask = MaskOf(cs[1])

\* an OR of two children with different masks that is neither child's mask
C3_Witness ==
  /\ pc = "evaluated" /\ IsGroupOf(filters, k_or)
  /\ Len(filters.v[k_or].v) = 2
  /\ result.kind = "ok"
  /\ result.mask # MaskOf(filters.v[k_or].v[1])
  /\ result.mask # MaskOf(filters.v[k_or].v[2])

\* filters is {not: {not: F}} for a valid leaf or group node F
IsDoubleNegation(node) ==
  /\ OnlyKey(node, k_not)
  /\ OnlyKey(node.v[k_not], k_not)
  /\ node.v[k_not].v[k_not].t = "dict"
  /\ k_not \notin NormKeys(node.v[k_not].v[k_not])
  /\ Valid(node.v[k_not].v[k_not])

\* C4: evaluating {not: {not: F}} gives the mask of F, for every valid
\* leaf or group node F.
C4_DoubleNegationCancels ==
  (pc = "evaluated" /\ IsDoubleNegation(filters)) =>
    /\ result.kind = "ok"
    /\ result.mask = MaskOf(filters.v[k_not].v[k_not])

\* F is a group, its mask selects some rows and not others
C4_Witness ==
  /\ pc = "evaluated" /\ IsDoubleNegation(filters)
  /\ k_and \in DOMAIN filters.v[k_not].v[k_not].v
  /\ result.mask = <<"True", "False">>

IsNotList(node) ==
  /\ OnlyKey(node, k_not)
  /\ node.v[k_not].t = "list"
  /\ node.v[k_not].v # <<>>
  /\ \A i \in 1..Len(node.v[k_not].v) : Valid(node.v[k_not].v[i])

\* C5: {not: [c1, ..., cn]} gives the row-by-row negation of the AND of
\* all the children's masks, the mask of {not: {and: [c1, ..., cn]}}.
C5_NotListIsNotOfAnd ==
  (pc = "evaluated" /\ IsNotList(filters)) =>
    LET cs == filters.v[k_not].v
    IN  /\ result.kind = "ok"
        /\ \A r \in Rows :
             result.mask[r]
               = Not3(AllOf({MaskOf(cs[i])[r] : i \in 1..Len(cs)}))
        /\ result.mask = MaskOf(Node1(k_not, Node1(k_and, ListV(cs))))

\* a row where NOT(AND(children)) is True although the AND of the negated
\* children is False
C5_Witness ==
  /\ pc = "evaluated" /\ IsNotList(filters)
  /\ result.kind = "ok"
  /\ \E r \in Rows :
       /\ result.mask[r] = "True"
       /\ AllOf({Not3(MaskOf(filters.v[k_not].v[i])[r]) :
                   i \in 1..Len(filters.v[k_not].v)}) = "False"

\* the keys of a node that normalize to one of the given names
KeysNamed(node, names) == {k \in DOMAIN node.v : Strip(Lower(k)) \in names}

\* C6: a node whose 'and', 'or' or 'not' key is written in another letter
\* case or with surrounding whitespace evaluates as the same node written
\* with the lowercase trimmed key.
C6_KeySpellingIsIrrelevant ==
  \A k \in KeySpellings :
    (pc = "evaluated" /\ OnlyKey(filters, k)) =>
      LET canon == _eval_node(df, Node1(Strip(Lower(k)), filters.v[k]),
                              case_insensitive)
      IN  result.kind = canon.kind /\ result.mask = canon.mask

RECURSIVE SubNodes(_)
\* the nodes of a filter tree: the node, and the nodes under its
\* combinator and negation keys
SubNodes(x) ==
  CASE x.t = "dict" ->
         {x} \cup UNION {SubNodes(x.v[k]) :
                           k \in KeysNamed(x, {k_and, k_or, k_not})}
    [] x.t = "list" -> UNION {SubNodes(x.v[i]) : i \in 1..Len(x.v)}
    [] OTHER -> {}

HasBothCombinators(node) ==
  node.t = "dict" /\ k_and \in NormKeys(node) /\ k_or \in NormKeys(node)

Called == pc \in {"evaluated", "filtered"}

\* C7 as stated: a node anywhere in the tree whose normalized keys contain
\* both 'and' and 'or' makes the whole evaluation fail with ValueError.
C7_BothAnywhereIsValueError ==
  (Called /\ Truthy(filters)
     /\ \E n \in SubNodes(filters) : HasBothCombinators(n)) =>
    result.kind = "ValueError"

\* C7: whenever _eval_node is entered, at any depth, with a node whose
\* normalized keys contain both 'and' and 'or', the whole evaluation fails
\* with the ValueError of that node and nothing is evaluated after it:
\* none of its children is entered, whatever they are.
C7_BothReachedIsValueError ==
  Called =>
    \A i \in 1..Len(result.visited) :
      HasBothCombinators(result.visited[i]) =>
        /\ i = Len(result.visited)
        /\ result.kind = "ValueError"
        /\ result.msg.text = "Node cannot contain both 'and' and 'or' keys."

\* a node with both keys, below the root, stops the evaluation
C7_Witness ==
  /\ pc = "filtered"
  /\ Len(result.visited) >= 2
  /\ HasBothCombinators(result.visited[Len(result.visited)])
  /\ result.kind = "ValueError"

\* k is the node's only spelling of its name and holds an empty list
HoldsEmptyList(node, names) ==
  \E k \in KeysNamed(node, names) :
    /\ KeysNamed(node, {Strip(Lower(k))}) = {k}
    /\ node.v[k] = ListV(<<>>)

IsEmptyGroup(node) ==
  node.t = "dict" /\ HoldsEmptyList(node, {k_and, k_or})

IsEmptyNotList(node) ==
  /\ node.t = "dict"
  /\ KeysNamed(node, {k_and, k_or}) = {}
  /\ HoldsEmptyList(node, {k_not})

\* C8: a group node whose children are an empty list, and a negation node
\* whose list form is empty, fail with ValueError and produce no mask.
C8_EmptyListIsValueError ==
  (pc = "evaluated" /\ (IsEmptyGroup(filters) \/ IsEmptyNotList(filters))) =>
    result.kind = "ValueError" /\ result.mask = <<>>

C8_Witness ==
  /\ pc = "evaluated"
  /\ filters = Node1(k_or, ListV(<<>>))
  /\ Len(df.rows) = 2
  /\ result.kind = "ValueError"

IsLeafShaped(node) ==
  node.t = "dict" /\ KeysNamed(node, {k_and, k_or, k_not}) = {}

ValueOps == _OPS \cup _SET_OPS \cup _RANGE_OPS \cup _STRING_OPS

\* C9: a leaf on an existing column whose value is absent (or None) and
\* whose operator is of the comparison, set-membership, range or
\* string-match family fails with an error instead of producing a mask.
C9_ValueRequired ==
  (/\ pc = "evaluated"
   /\ IsLeafShaped(filters)
   /\ Get(filters, k_col).t = "str"
   /\ HasColumn(df, Get(filters, k_col).v)
   /\ Get(filters, k_op).t = "str"
   /\ Strip(Lower(Get(filters, k_op).v)) \in ValueOps
   /\ Get(filters, k_value) = None) =>
    result.kind # "ok"

\* a leaf with 'col' and 'op' naming a column the table does not have
IsUnknownColumnLeaf(node) ==
  /\ IsLeafShaped(node)
  /\ Get(node, k_col).t = "str"
  /\ Get(node, k_op).t # "none"
  /\ ~HasColumn(df, Get(node, k_col).v)

\* C10 as stated: a leaf anywhere in the tree that names an unknown column
\* makes the evaluation fail with a KeyError naming that column.
C10_UnknownColumnAnywhereIsKeyError ==
  (Called /\ Truthy(filters)) =>
    \A n \in SubNodes(filters) :
      IsUnknownColumnLeaf(n) =>
        /\ result.kind = "KeyError"
        /\ \E i \in 1..Len(result.msg.args) :
             result.msg.args[i] = Get(n, k_col)

\* C10: whenever _eval_node is entered, at any depth, with a leaf that has
\* 'col' and 'op' and names a column the table does not have, the whole
\* evaluation fails with a KeyError whose message contains the column name,
\* and nothing is evaluated after that leaf.
C10_UnknownColumnReachedIsKeyError ==
  Called =>
    \A i \in 1..Len(result.visited) :
      IsUnknownColumnLeaf(result.visited[i]) =>
        /\ i = Len(result.visited)
        /\ result.kind = "KeyError"
        /\ result.msg.text = "Column not found: "
        /\ result.msg.args = <<Get(result.visited[i], k_col)>>

\* the unknown column is met three calls deep
C10_Witness ==
  /\ pc = "filtered"
  /\ Len(result.visited) >= 3
  /\ IsUnknownColumnLeaf(result.visited[Len(result.visited)])
  /\ result.kind = "KeyError"
  /\ result.msg.args = <<StrV(c_zzz)>>

----------------------------------------------------------------------------
(* Leaf operators *)

\* _eval_node was called on a leaf with 'col' naming a column of the table
\* and a text 'op'
IsLeafOnColumn ==
  /\ pc = "evaluated"
  /\ IsLeafShaped(filters)
  /\ Get(filters, k_col).t = "str"
  /\ HasColumn(df, Get(filters, k_col).v)
  /\ Get(filters, k_op).t = "str"

\* the operator of the leaf, lowercased and trimmed
LeafOpNorm == Strip(Lower(Get(filters, k_op).v))

IsLeafWith(ops) == IsLeafOnColumn /\ LeafOpNorm \in ops

\* the cell of the leaf's column in row i
Cell(i) == df.rows[i][Get(filters, k_col).v]

LeafDtype == df.dtypes[Get(filters, k_col).v]

IsIntPair(val) ==
  val.t = "list" /\ Len(val.v) = 2 /\ val.v[1].t = "int" /\ val.v[2].t = "int"

\* C11: a 'between' leaf with value [low, high] on a column of integers
\* gives a mask that is True exactly on the rows with low <= value <= high,
\* both bounds included; with low > high no row is selected.
C11_BetweenIsInclusive ==
  (/\ IsLeafWith(_RANGE_OPS)
   /\ LeafDtype = "int64"
   /\ IsIntPair(Get(filters, k_value))) =>
    LET low  == Get(filters, k_value).v[1].v
        high == Get(filters, k_value).v[2].v
    IN  /\ result.kind = "ok"
        /\ Len(result.mask) = Len(df.rows)
        /\ \A i \in Rows :
             result.mask[i] = B(low <= Cell(i).v /\ Cell(i).v <= high)
        /\ low > high => \A i \in Rows : result.mask[i] = "False"

\* ages 5, 10, 15 with [10, 15]: 10 and 15 are selected, 5 is not
C11_Witness ==
  /\ IsLeafWith(_RANGE_OPS)
  /\ Get(filters, k_col) = StrV(c_age)
  /\ Column(df, c_age) = <<IntV(5), IntV(10), IntV(15)>>
  /\ Get(filters, k_value) = ListV(<<IntV(10), IntV(15)>>)
  /\ result.mask = <<"False", "True", "True">>

\* C12: for every string-match operator and every match value that is not
\* absent, the leaf evaluates without error and a row whose cell is missing
\* has a False mask entry.
C12_MissingNeverMatches ==
  (IsLeafWith(_STRING_OPS) /\ Get(filters, k_value) # None) =>
    /\ result.kind = "ok"
    /\ \A i \in Rows : Cell(i).t = "none" => result.mask[i] = "False"

\* C13: with case_insensitive set, an == or != leaf on a textual column
\* compares the lowercased cell text with the lowercased str(value); for
\* the ordering operators and for non-textual columns the outcome is the
\* same whether case_insensitive is set or not.
C13_CaseInsensitiveEquality ==
  (IsLeafWith(_OPS) /\ Get(filters, k_value) # None) =>
    LET op  == LeafOpNorm
        val == Get(filters, k_value)
        off == _eval_node(df, filters, FALSE)
        on  == _eval_node(df, filters, TRUE)
    IN  /\ (/\ case_insensitive
            /\ op \in {op_eq, op_ne}
            /\ LeafDtype \in {"object", "string"}) =>
             /\ result.kind = "ok"
             /\ \A i \in Rows :
                  Cell(i).t = "str" =>
                    result.mask[i] =
                      B((Lower(Cell(i).v) = Lower(ToStr(val))) <=> (op = op_eq))
        /\ (op \in Ordering \/ LeafDtype = "int64") =>
             (on.kind = off.kind /\ on.mask = off.mask)

\* C14: a set-membership leaf whose value is one text behaves as the leaf
\* whose value is the one-element list holding that text: 'in' selects
\* exactly the rows equal to the text, 'not_in' exactly the others.
C14_TextValueIsOneElementSet ==
  (IsLeafWith(_SET_OPS) /\ Get(filters, k_value).t = "str") =>
    LET op     == LeafOpNorm
        val    == Get(filters, k_value)
        listed == _eval_node(df,
                             LeafNode(Get(filters, k_col),
                                      Get(filters, k_op), ListV(<<val>>)),
                             case_insensitive)
    IN  /\ result.kind = "ok"
        /\ listed.kind = "ok"
        /\ result.mask = listed.mask
        /\ \A i \in Rows :
             result.mask[i] = B((Cell(i) = val) <=> (op \in {op_in, op_isin}))

\* 'in' with the text "Bob" on the names "Bob", missing, "B": the row "Bob"
\* is selected and the row holding its first letter is not
C14_Witness ==
  /\ IsLeafWith({op_in})
  /\ Get(filters, k_col) = StrV(c_name)
  /\ Column(df, c_name) = <<s_Bob, None, StrV(<<"B">>)>>
  /\ Get(filters, k_value) = s_Bob
  /\ result.mask = <<"True", "False", "False">>

AllOps == _OPS \cup _NULL_OPS \cup _SET_OPS \cup _RANGE_OPS \cup _STRING_OPS

IsUnsupportedOperatorError(r) ==
  r.kind = "ValueError" /\ r.msg.text = "Unsupported operator: "

\* C15: a leaf on an existing column whose operator, lowercased and
\* trimmed, is in none of the five families fails with a ValueError whose
\* message holds the operator as it was given; an operator that is a
\* supported one up to letter case and surrounding whitespace is not
\* rejected as unsupported.
C15_UnsupportedOperatorIsValueError ==
  /\ (IsLeafOnColumn /\ LeafOpNorm \notin AllOps) =>
       /\ IsUnsupportedOperatorError(result)
       /\ result.msg.args = <<Get(filters, k_op)>>
  /\ IsLeafWith(AllOps) => ~IsUnsupportedOperatorError(result)

\* the operator " Bogus " is named in the message with its capital and
\* its spaces
C15_Witness ==
  /\ pc = "evaluated"
  /\ IsLeafShaped(filters)
  /\ Get(filters, k_op) = StrV(<<" ","B","o","g","u","s"," ">>)
  /\ IsUnsupportedOperatorError(result)
  /\ result.msg.args = <<StrV(<<" ","B","o","g","u","s"," ">>)>>

----------------------------------------------------------------------------
(* src/utils.py: more Python values.  A float is held in tenths (FloatV(15) *)
(* is 1.5); the texts and numbers of the inputs have at most one decimal.  *)
(* A Timestamp is <<day, tenth, ns>>: days since 1970-01-01, tenths of a   *)
(* day, and a remainder in nanoseconds.                                    *)

FloatV(tenths) == [t |-> "float", v |-> tenths]

NaN == [t |-> "nan", v |-> 0]

BoolV(b) == [t |-> "bool", v |-> b]

\* a Python type object, by its name
TypeV(name) == [t |-> "type", v |-> name]

TsV(day, tenth, ns) == [t |-> "ts", v |-> <<day, tenth, ns>>]

NaT == [t |-> "nat", v |-> 0]

DateV(ymd) == [t |-> "date", v |-> ymd]

\* days from 1970-01-01 to the civil date y-m-d (proleptic Gregorian)
DaysFromCivil(y, m, d) ==
  LET yy  == IF m <= 2 THEN y - 1 ELSE y
      era == yy \div 400
      yoe == yy - era * 400
      mp  == IF m > 2 THEN m - 3 ELSE m + 9
      doy == (153 * mp + 2) \div 5 + d - 1
      doe == yoe * 365 + yoe \div 4 - yoe \div 100 + doy
  IN  era * 146097 + doe - 719468

\* the civil date <<y, m, d>> of a day number
CivilFromDays(n) ==
  LET z   == n + 719468
      era == z \div 146097
      doe == z - era * 146097
      yoe == (doe - doe \div 1460 + doe \div 36524 - doe \div 146096) \div 365
      doy == doe - (365 * yoe + yoe \div 4 - yoe \div 100)
      mp  == (5 * doy + 2) \div 153
      d   == doy - (153 * mp + 2) \div 5 + 1
      m   == IF mp < 10 THEN mp + 3 ELSE mp - 9
  IN  <<yoe + era * 400 + (IF m <= 2 THEN 1 ELSE 0), m, d>>

\* _EXCEL_DATE_BASE_1900 = dt.datetime(1899, 12, 30)
_EXCEL_DATE_BASE_1900 == <<1899, 12, 30>>

IsDigit(c) == \E i \in 1..Len(Digits) : Digits[i] = c

DigitValue(c) == (CHOOSE i \in 1..Len(Digits) : Digits[i] = c) - 1

IsDigits(s) == s # <<>> /\ \A i \in 1..Len(s) : IsDigit(s[i])

RECURSIVE NatOfDigits(_)
NatOfDigits(s) ==
  IF s = <<>> THEN 0
  ELSE 10 * NatOfDigits(SubSeq(s, 1, Len(s) - 1)) + DigitValue(s[Len(s)])

Unsigned(s) == IF s # <<>> /\ Head(s) \in {"-", "+"} THEN Tail(s) ELSE s

DotAt(s) == {i \in 1..Len(s) : s[i] = "."}

\* re.fullmatch(r"[-+]?\d+(\.\d+)?", s)
NumericText(s) ==
  LET u == Unsigned(s)
  IN  \/ IsDigits(u)
      \/ \E i \in DotAt(u) :
           IsDigits(SubSeq(u, 1, i - 1)) /\ IsDigits(SubSeq(u, i + 1, Len(u)))

\* float(s) of a text that matches, in tenths
FloatOfText(s) ==
  LET u    == Unsigned(s)
      sign == IF Head(s) = "-" THEN -1 ELSE 1
      i    == IF DotAt(u) = {} THEN Len(u) + 1 ELSE CHOOSE j \in DotAt(u) : TRUE
      frac == IF i > Len(u) THEN 0 ELSE DigitValue(u[i + 1])
  IN  sign * (10 * NatOfDigits(SubSeq(u, 1, i - 1)) + frac)

\* mutant of InSerialRange: a serial of exactly 1 is rejected
InSerialRangeAboveOne(serial) == 10 < serial /\ serial <= 80000 * 10

\* 1 <= serial <= 80000, the serial in tenths
InSerialRange(serial) == 1 * 10 <= serial /\ serial <= 80000 * 10

\* pd.Timestamp(_EXCEL_DATE_BASE_1900) + pd.to_timedelta(serial, unit="D")
SerialTimestamp(serial) ==
  LET base == DaysFromCivil(_EXCEL_DATE_BASE_1900[1],
                            _EXCEL_DATE_BASE_1900[2],
                            _EXCEL_DATE_BASE_1900[3])
  IN  TsV(base + serial \div 10, serial % 10, 0)

\* _parse_excel_serial_date(val), with tz left at its default None
_parse_excel_serial_date(val) ==
  IF val.t \in {"none", "nan"} THEN NaT
  ELSE IF val.t = "str" /\ Strip(val.v) = <<>> THEN NaT
  ELSE IF val.t = "str" /\ ~NumericText(Strip(val.v)) THEN NaT
  ELSE
    LET num == IF val.t = "str" THEN FloatV(FloatOfText(Strip(val.v))) ELSE val
    IN  IF num.t \notin {"int", "bool", "float"} THEN NaT
        ELSE
          LET serial == CASE num.t = "int"   -> 10 * num.v
                          [] num.t = "bool"  -> IF num.v THEN 10 ELSE 0
                          [] num.t = "float" -> num.v
          IN  IF ~InSerialRange(serial) THEN NaT
              ELSE SerialTimestamp(serial)

----------------------------------------------------------------------------
(* The inputs of _parse_excel_serial_date *)

\* how far around 0, 1, 47521 and 80000 the numbers of the inputs reach
SerialSpan == 2

Around(S) == UNION {(b - SerialSpan)..(b + SerialSpan) : b \in S}

SerialInts == Around({0, 47521, 80000})

SerialTenths == Around({10, 800000}) \cup {5, 475210, 475215}

SerialTexts ==
  {IntToStr(n) : n \in SerialInts}
  \cup {FloatToStr(f) : f \in SerialTenths}
  \cup { <<>>, <<" ">>, <<"a","b","c">>, <<"1","e","3">>, <<"1",".">>,
         <<".","5">>, <<"+","5">>, <<"+">>, <<"-",".","5">>,
         <<"1",".","5",".","0">>, <<"4","7","5","2","1"," ","x">>,
         <<" ","4","7","5","2","1","\n">>, <<"\t","8","0","0","0","1"," ">>,
         <<"2","0","3","0","-","0","2","-","0","7">> }

SerialInputs ==
  {IntV(n) : n \in SerialInts}
  \cup {FloatV(f) : f \in SerialTenths}
  \cup {StrV(s) : s \in SerialTexts}
  \cup {None, NaN, BoolV(TRUE), BoolV(FALSE), ListV(<<IntV(5)>>),
        DateV(<<2030, 2, 7>>)}

InitSerial ==
  /\ raw_val \in SerialInputs
  /\ pc = "ready"
  /\ result = NoResult
  /\ df = 0
  /\ filters = None
  /\ case_insensitive = FALSE
  /\ heap = <<>>
  /\ out_df = 0
  /\ dtype_map = <<>>
  /\ on_missing = "ignore"
  /\ item = 0
  /\ NoWidgets

\* ts = _parse_excel_serial_date(val)
CallParse ==
  /\ pc = "ready"
  /\ result' = _parse_excel_serial_date(raw_val)
  /\ pc' = "parsed"
  /\ UNCHANGED gvars
  /\ UNCHANGED <<fvars, heap, out_df, dtype_map, on_missing, item, raw_val>>

NextSerial == CallParse

SpecSerial == InitSerial /\ [][NextSerial]_vars

\* the input is a number, or a text that reads as a decimal numeral once
\* its surrounding whitespace is dropped
IsNumberOrNumeral(x) ==
  \/ x.t \in {"int", "bool", "float"}
  \/ x.t = "str" /\ NumericText(Strip(x.v))

\* its value, in tenths
TenthsOf(x) ==
  CASE x.t = "int"   -> 10 * x.v
    [] x.t = "bool"  -> IF x.v THEN 10 ELSE 0
    [] x.t = "float" -> x.v
    [] x.t = "str"   -> FloatOfText(Strip(x.v))

\* C19: _parse_excel_serial_date accepts a number or numeric-looking text
\* exactly when its value s has 1 <= s <= 80000 and then returns
\* 1899-12-30 plus s days (1 gives 1899-12-31, 80000 gives 2119-01-11);
\* every other input returns NaT, and no input raises.
C19_SerialAcceptedExactlyInRange ==
  pc = "parsed" =>
    /\ IF /\ IsNumberOrNumeral(raw_val)
          /\ 10 <= TenthsOf(raw_val)
          /\ TenthsOf(raw_val) <= 800000
       THEN result = TsV(DaysFromCivil(1899, 12, 30)
                           + TenthsOf(raw_val) \div 10,
                         TenthsOf(raw_val) % 10, 0)
       ELSE result = NaT
    /\ (IsNumberOrNumeral(raw_val) /\ TenthsOf(raw_val) = 10) =>
         (result.t = "ts" /\ CivilFromDays(result.v[1]) = <<1899, 12, 31>>)
    /\ (IsNumberOrNumeral(raw_val) /\ TenthsOf(raw_val) = 800000) =>
         (result.t = "ts" /\ CivilFromDays(result.v[1]) = <<2119, 1, 11>>)

\* the text "80000.0", the upper bound, is accepted and is 2119-01-11
C19_Witness ==
  /\ pc = "parsed"
  /\ raw_val = StrV(<<"8","0","0","0","0",".","0">>)
  /\ result = TsV(DaysFromCivil(2119, 1, 11), 0, 0)

----------------------------------------------------------------------------
(* src/utils.py: the conversions of one column.  A conversion gives        *)
(* [kind, values, dtype, msg]: the new cells and their dtype, or an        *)
(* exception.                                                              *)

Converted(values, dtype) ==
  [kind |-> "ok", values |-> values, dtype |-> dtype, msg |-> NoMsg]

Failed(kind, text, args) ==
  [kind |-> kind, values |-> <<>>, dtype |-> "", msg |-> Msg(text, args)]

\* Series.isna() of one cell
IsMissing(x) == x.t \in {"none", "nan", "nat"}

\* the text is a date written YYYY-MM-DD
IsIsoDate(s) ==
  /\ Len(s) = 10
  /\ s[5] = "-" /\ s[8] = "-"
  /\ IsDigits(SubSeq(s, 1, 4))
  /\ IsDigits(SubSeq(s, 6, 7))
  /\ IsDigits(SubSeq(s, 9, 10))
  /\ LET y == NatOfDigits(SubSeq(s, 1, 4))
         m == NatOfDigits(SubSeq(s, 6, 7))
         d == NatOfDigits(SubSeq(s, 9, 10))
     IN  /\ m \in 1..12
         /\ d >= 1
         /\ CivilFromDays(DaysFromCivil(y, m, d)) = <<y, m, d>>

\* pd.to_datetime(..., errors="coerce") of one cell: a number is a count of
\* nanoseconds since 1970-01-01, a text is a date if it is written
\* YYYY-MM-DD (the other texts of the inputs are not dates to pandas)
ToDatetime(x) ==
  CASE IsMissing(x)   -> NaT
    [] x.t = "int"    -> TsV(0, 0, x.v)
    [] x.t = "float"  -> TsV(0, 0, x.v \div 10)
    [] x.t = "str"    ->
         IF IsIsoDate(x.v)
         THEN TsV(DaysFromCivil(NatOfDigits(SubSeq(x.v, 1, 4)),
                                NatOfDigits(SubSeq(x.v, 6, 7)),
                                NatOfDigits(SubSeq(x.v, 9, 10))), 0, 0)
         ELSE NaT

\* dt_norm, with the cells that did not parse and are not missing read as
\* Excel serials
WithExcelSerials(s) ==
  [i \in 1..Len(s) |->
     LET dt_norm  == ToDatetime(s[i])
         mask_bad == dt_norm = NaT /\ ~IsMissing(s[i])
     IN  IF mask_bad THEN _parse_excel_serial_date(s[i]) ELSE dt_norm]

\* Timestamp.date()
DateOf(ts) ==
  IF ts.t = "nat" THEN NaT
  ELSE DateV(CivilFromDays(IF ts.v[2] = 0 /\ ts.v[3] < 0
                           THEN ts.v[1] - 1 ELSE ts.v[1]))

\* _to_date_series(s); pd.to_datetime does not take a bool column
_to_date_series(s, dtype) ==
  IF dtype = "bool"
  THEN Failed("TypeError", "dtype bool cannot be converted to datetime64[ns]",
              <<>>)
  ELSE Converted([i \in 1..Len(s) |-> DateOf(WithExcelSerials(s)[i])],
                 "object")

\* pd.to_numeric(..., errors="coerce") of one cell
ToNumeric(x) ==
  CASE IsMissing(x)  -> NaN
    [] x.t = "int"   -> x
    [] x.t = "float" -> x
    [] x.t = "bool"  -> IntV(IF x.v THEN 1 ELSE 0)
    [] x.t = "str"   ->
         IF ~NumericText(x.v) THEN NaN
         ELSE IF DotAt(x.v) = {} THEN IntV(FloatOfText(x.v) \div 10)
         ELSE FloatV(FloatOfText(x.v))

\* the cells as a float64 column holds them
AsFloat(x) == IF x.t = "int" THEN FloatV(10 * x.v) ELSE x

\* pd.to_numeric(s, errors="coerce"): int64 if every cell is an integer,
\* else float64
to_numeric(s) ==
  LET nums == [i \in 1..Len(s) |-> ToNumeric(s[i])]
  IN  IF \A i \in 1..Len(s) : nums[i].t = "int"
      THEN Converted(nums, "int64")
      ELSE Converted([i \in 1..Len(s) |-> AsFloat(nums[i])], "float64")

\* .astype("Int64") of a numeric column: NaN becomes <NA>; a float that is
\* not a whole number cannot be cast
AsInt64(num) ==
  IF \E i \in 1..Len(num.values) :
       num.values[i].t = "float" /\ num.values[i].v % 10 # 0
  THEN Failed("TypeError",
              "cannot safely cast non-equivalent float64 to int64", <<>>)
  ELSE Converted([i \in 1..Len(num.values) |->
                    IF num.values[i].t = "nan" THEN None
                    ELSE IF num.values[i].t = "int" THEN num.values[i]
                    ELSE IntV(num.values[i].v \div 10)], "Int64")

\* .astype("Float64") of a numeric column
AsFloat64(num) ==
  Converted([i \in 1..Len(num.values) |->
               IF num.values[i].t = "nan" THEN None
               ELSE AsFloat(num.values[i])], "Float64")

bool_true ==
  { <<"t","r","u","e">>, <<"t">>, <<"y","e","s">>, <<"y">>, <<"1">> }

bool_false ==
  { <<"f","a","l","s","e">>, <<"f">>, <<"n","o">>, <<"n">>, <<"0">> }

\* mutant of AsBoolean: the text is lowercased but not trimmed
AsBooleanNoStrip(s) ==
  Converted([i \in 1..Len(s) |->
               LET txt == AsString(s[i])
               IN  IF txt.t = "none" THEN None
                   ELSE IF Lower(txt.v) \in bool_true THEN BoolV(TRUE)
                   ELSE IF Lower(txt.v) \in bool_false THEN BoolV(FALSE)
                   ELSE None], "boolean")

\* s.astype("string").str.strip().str.lower().map({...}).astype("boolean")
AsBoolean(s) ==
  Converted([i \in 1..Len(s) |->
               LET txt == AsString(s[i])
               IN  IF txt.t = "none" THEN None
                   ELSE IF Lower(Strip(txt.v)) \in bool_true THEN BoolV(TRUE)
                   ELSE IF Lower(Strip(txt.v)) \in bool_false
                   THEN BoolV(FALSE)
                   ELSE None], "boolean")

----------------------------------------------------------------------------
(* coerce_dtypes, one step per item of dtype_map *)

t_date == <<"d","a","t","e">>

t_string == <<"s","t","r","i","n","g">>

t_int == <<"i","n","t">>

t_float == <<"f","l","o","a","t">>

t_bool == <<"b","o","o","l">>

t_category == <<"c","a","t","e","g","o","r","y">>

DateNames == {t_date}

DatetimeNames ==
  { <<"d","a","t","e","t","i","m","e">>, <<"d","a","t","e","t","i","m","e","6","4">>,
    <<"t","i","m","e","s","t","a","m","p">> }

StringNames == {t_string, <<"s","t","r">>}

IntNames == {t_int, <<"i","n","t","6","4">>, <<"i","n","t","e","g","e","r">>}

FloatNames == {t_float, <<"f","l","o","a","t","6","4">>, <<"d","o","u","b","l","e">>}

BoolNames == {t_bool, <<"b","o","o","l","e","a","n">>}

\* the target spec normalised: a Python type by its tag, then
\* strip().lower()
TargetNorm(target) ==
  IF target.t = "type"
  THEN CASE target.v = t_int   -> t_int
         [] target.v = t_float -> t_float
         [] target.v = t_bool  -> t_bool
         [] target.v = <<"s","t","r">> -> t_string
         [] OTHER -> Lower(Strip(<<"<","c","l","a","s","s"," ","'">>
                                 \o target.v \o <<"'",">">>))
  ELSE Lower(Strip(ToStr(target)))

\* s.astype(target) for a target that is no name of the lists above: the
\* pandas dtype "category" is taken, the other targets of the inputs are
\* no dtype
Astype(s, target) ==
  IF target = StrV(t_category) THEN Converted(s, "category")
  ELSE Failed("TypeError", "Failed to coerce column to ", <<target>>)

\* the right-hand side of the assignment out[col] = ... for one item
CoerceColumn(s, dtype, target) ==
  LET t_norm == TargetNorm(target)
  IN  IF t_norm \in DateNames THEN _to_date_series(s, dtype)
      ELSE IF t_norm \in DatetimeNames
      THEN IF dtype = "bool"
           THEN Failed("TypeError",
                       "dtype bool cannot be converted to datetime64[ns]",
                       <<>>)
           ELSE Converted(WithExcelSerials(s), "datetime64[ns]")
      ELSE IF t_norm \in StringNames
      THEN Converted([i \in 1..Len(s) |-> AsString(s[i])], "string")
      ELSE IF t_norm \in IntNames THEN AsInt64(to_numeric(s))
      ELSE IF t_norm \in FloatNames THEN AsFloat64(to_numeric(s))
      ELSE IF t_norm \in BoolNames
      THEN IF dtype = "bool" THEN Converted(s, dtype) ELSE AsBoolean(s)
      ELSE Astype(s, target)

\* out[col] = values
SetColumn(d, col, values, dtype) ==
  [d EXCEPT !.rows = [i \in 1..Len(d.rows) |->
                        [d.rows[i] EXCEPT ![col] = values[i]]],
            !.dtypes = [d.dtypes EXCEPT ![col] = dtype]]

\* the item of dtype_map the loop is at
Col == dtype_map[item].col

Target == dtype_map[item].target

InLoop == pc = "loop" /\ item <= Len(dtype_map)

\* mutant of Copy: out is the table itself, not a copy
CopyAliases ==
  /\ pc = "ready"
  /\ out_df' = df
  /\ item' = 1
  /\ pc' = "loop"
  /\ UNCHANGED gvars
  /\ UNCHANGED <<fvars, heap, dtype_map, on_missing, raw_val, result>>

\* out = df.copy()
Copy ==
  /\ pc = "ready"
  /\ heap' = Append(heap, heap[df])
  /\ out_df' = Len(heap) + 1
  /\ item' = 1
  /\ pc' = "loop"
  /\ UNCHANGED gvars
  /\ UNCHANGED <<fvars, dtype_map, on_missing, raw_val, result>>

\* col not in out.columns and on_missing is not "raise": continue
IgnoreMissing ==
  /\ InLoop
  /\ ~HasColumn(heap[out_df], Col)
  /\ on_missing # "raise"
  /\ item' = item + 1
  /\ UNCHANGED gvars
  /\ UNCHANGED <<fvars, heap, out_df, dtype_map, on_missing, raw_val,
                 pc, result>>

\* mutant of RaiseMissing: an absent column raises whatever the policy
RaiseMissingAnyPolicy ==
  /\ InLoop
  /\ ~HasColumn(heap[out_df], Col)
  /\ result' = Raise("KeyError", "Column not found: ", <<StrV(Col)>>)
  /\ pc' = "raised"
  /\ UNCHANGED gvars
  /\ UNCHANGED <<fvars, cvars>>

\* col not in out.columns and on_missing == "raise"
RaiseMissing ==
  /\ InLoop
  /\ ~HasColumn(heap[out_df], Col)
  /\ on_missing = "raise"
  /\ result' = Raise("KeyError", "Column not found: ", <<StrV(Col)>>)
  /\ pc' = "raised"
  /\ UNCHANGED gvars
  /\ UNCHANGED <<fvars, cvars>>

\* out[col] = <the converted column>
AssignColumn ==
  /\ InLoop
  /\ HasColumn(heap[out_df], Col)
  /\ LET d == heap[out_df]
         c == CoerceColumn(Column(d, Col), d.dtypes[Col], Target)
     IN  /\ c.kind = "ok"
         /\ heap' = [heap EXCEPT ![out_df] =
                       SetColumn(d, Col, c.values, c.dtype)]
  /\ item' = item + 1
  /\ UNCHANGED gvars
  /\ UNCHANGED <<fvars, out_df, dtype_map, on_missing, raw_val, pc, result>>

\* the conversion raises, and so does coerce_dtypes
CoerceRaises ==
  /\ InLoop
  /\ HasColumn(heap[out_df], Col)
  /\ LET d == heap[out_df]
         c == CoerceColumn(Column(d, Col), d.dtypes[Col], Target)
     IN  /\ c.kind # "ok"
         /\ result' = Raise(c.kind, c.msg.text, c.msg.args)
  /\ pc' = "raised"
  /\ UNCHANGED gvars
  /\ UNCHANGED <<fvars, cvars>>

\* return out
Return ==
  /\ pc = "loop"
  /\ item > Len(dtype_map)
  /\ result' = [kind |-> "ok", out |-> out_df]
  /\ pc' = "returned"
  /\ UNCHANGED gvars
  /\ UNCHANGED <<fvars, cvars>>

----------------------------------------------------------------------------
(* The inputs of coerce_dtypes *)

\* the longest dtype_map
MaxItems == 2

s_47521 == StrV(<<"4","7","5","2","1">>)

\* tables with a numeric or bool column "age" and a text column "name"
CoerceTable(age_dtype, ages, names) ==
  MkTable(<<c_age, c_name>>,
          (c_age :> age_dtype) @@ (c_name :> "object"),
          [i \in 1..Len(ages) |-> (c_age :> ages[i]) @@ (c_name :> names[i])])

CoerceTables ==
  { CoerceTable("int64", <<IntV(47521), IntV(1)>>, <<s_47521, None>>),
    CoerceTable("int64", <<IntV(0), IntV(80001)>>,
                <<StrV(<<"7">>), StrV(<<"a","b","c">>)>>),
    CoerceTable("float64", <<FloatV(15), NaN>>,
                <<StrV(<<"Y","e","s">>), StrV(<<" ","n","o"," ">>)>>),
    CoerceTable("float64", <<FloatV(20), FloatV(475210)>>,
                <<StrV(<<"2","0","3","0","-","0","2","-","0","7">>),
                  StrV(<<"4","7","5","2","1",".","5">>)>>),
    CoerceTable("bool", <<BoolV(TRUE), BoolV(FALSE)>>,
                <<StrV(<<"1",".","5">>), StrV(<<>>)>>),
    CoerceTable("int64", <<IntV(1), IntV(0), IntV(7), IntV(1)>>,
                <<StrV(<<"Y","e","s">>), StrV(<<"0">>),
                  StrV(<<"m","a","y","b","e">>), StrV(<<"1">>)>>) }

Targets ==
  {StrV(n) : n \in {t_date, <<" ","D","a","t","e"," ">>,
                    <<"d","a","t","e","t","i","m","e">>, t_string, t_int,
                    <<"I","n","t","6","4">>, t_float, t_bool, t_category,
                    <<"b","o","g","u","s">>}}
  \cup {TypeV(n) : n \in {t_int, t_float, t_bool, <<"s","t","r">>,
                          <<"l","i","s","t">>}}

Item(col, target) == [col |-> col, target |-> target]

\* the first item of a dtype_map is any column with any target
FirstItems == {Item(c, g) : c \in {c_age, c_name, c_zzz}, g \in Targets}

\* the later items are of these
FollowItems ==
  { Item(c_zzz, StrV(t_int)), Item(c_name, StrV(t_string)),
    Item(c_age, StrV(t_float)), Item(c_name, StrV(t_date)) }

\* a dict has each key once
DistinctCols(m) ==
  \A i, j \in 1..Len(m) : i # j => m[i].col # m[j].col

DtypeMaps ==
  {<<>>}
  \cup {m \in {<<f>> \o r : f \in FirstItems,
                            r \in SeqsUpTo(FollowItems, MaxItems - 1)} :
          DistinctCols(m)}

InitCoerce ==
  /\ df = 1
  /\ heap \in {<<d>> : d \in CoerceTables}
  /\ dtype_map \in DtypeMaps
  /\ on_missing \in {"ignore", "raise"}
  /\ out_df = 0
  /\ item = 0
  /\ pc = "ready"
  /\ result = NoResult
  /\ filters = None
  /\ case_insensitive = FALSE
  /\ raw_val = None
  /\ NoWidgets

NextCoerce ==
  \/ Copy
  \/ IgnoreMissing
  \/ RaiseMissing
  \/ AssignColumn
  \/ CoerceRaises
  \/ Return

SpecCoerce == InitCoerce /\ [][NextCoerce]_vars

----------------------------------------------------------------------------
(* Coercion *)

\* C17: no step of coerce_dtypes changes the table it was given, whether
\* the call goes on to return or to raise, and the table it returns is
\* another object than the one it was given.
C17_InputTableUntouched ==
  [][/\ df' = df
     /\ heap'[df] = heap[df]
     /\ pc' = "returned" =>
          (result'.out # df /\ result'.out \in DOMAIN heap')]_vars

\* a call that returned a table whose "age" column was converted
C17_Witness ==
  /\ pc = "returned"
  /\ result.out # df
  /\ heap[df].dtypes[c_age] = "int64"
  /\ heap[result.out].dtypes[c_age] = "Float64"
  /\ Column(heap[result.out], c_age) # Column(heap[df], c_age)

\* the items of dtype_map that name a column of the table with a target
\* of the given names
ItemsTo(names) ==
  {k \in 1..Len(dtype_map) :
     /\ HasColumn(heap[df], dtype_map[k].col)
     /\ TargetNorm(dtype_map[k].target) \in names}

\* C18: coercing the value 47521 (the number, or the text "47521") to
\* 'date' gives the date 2030-01-01.
C18_Serial47521IsNewYear2030 ==
  pc = "returned" =>
    \A k \in ItemsTo(DateNames) :
      \A i \in 1..Len(heap[df].rows) :
        heap[df].rows[i][dtype_map[k].col] \in {IntV(47521), s_47521} =>
          heap[result.out].rows[i][dtype_map[k].col] = DateV(<<2030, 1, 1>>)

\* a cell that holds a number, or a text that reads as one
IsValidNumber(x) ==
  \/ x.t \in {"int", "float", "bool"}
  \/ x.t = "str" /\ NumericText(x.v)

\* C20: coerce_dtypes with target 'int' or 'float' never raises; in the
\* table it returns every cell that was no valid number is missing and
\* every valid number is kept (as an integer for 'int', as a float for
\* 'float').
C20_NumericCoercionNeverRaises ==
  /\ (pc = "raised" /\ HasColumn(heap[df], Col)) =>
       TargetNorm(Target) \notin (IntNames \cup FloatNames)
  /\ pc = "returned" =>
       \A k \in ItemsTo(IntNames \cup FloatNames) :
         \A i \in 1..Len(heap[df].rows) :
           LET x == heap[df].rows[i][dtype_map[k].col]
               y == heap[result.out].rows[i][dtype_map[k].col]
           IN  IF ~IsValidNumber(x) THEN y = None
               ELSE IF TargetNorm(dtype_map[k].target) \in FloatNames
               THEN y = FloatV(TenthsOf(x))
               ELSE y = IntV(TenthsOf(x) \div 10) /\ TenthsOf(x) % 10 = 0

\* the words the claim lists for true and for false
TrueWords ==
  { <<"t","r","u","e">>, <<"t">>, <<"y","e","s">>, <<"y">>, <<"1">> }

FalseWords ==
  { <<"f","a","l","s","e">>, <<"f">>, <<"n","o">>, <<"n">>, <<"0">> }

\* C21: coerce_dtypes with target 'bool' never raises; on a column that is
\* not boolean each cell becomes true if its text, trimmed and lowercased,
\* is one of true, t, yes, y, 1, false if it is one of false, f, no, n, 0,
\* and missing otherwise (a missing cell stays missing); a boolean column
\* is returned as it was.
C21_BoolLexicon ==
  /\ (pc = "raised" /\ HasColumn(heap[df], Col)) =>
       TargetNorm(Target) \notin BoolNames
  /\ pc = "returned" =>
       \A k \in ItemsTo(BoolNames) :
         LET c == dtype_map[k].col
         IN  IF heap[df].dtypes[c] = "bool"
             THEN /\ Column(heap[result.out], c) = Column(heap[df], c)
                  /\ heap[result.out].dtypes[c] = "bool"
             ELSE \A i \in 1..Len(heap[df].rows) :
                    LET x == heap[df].rows[i][c]
                        y == heap[result.out].rows[i][c]
                        w == Lower(Strip(ToStr(x)))
                    IN  IF x.t \in {"none", "nan"} THEN y = None
                        ELSE IF w \in TrueWords THEN y = BoolV(TRUE)
                        ELSE IF w \in FalseWords THEN y = BoolV(FALSE)
                        ELSE y = None

\* 'Yes', '0', 'maybe', '1' became true, false, missing, true
C21_Witness ==
  /\ pc = "returned"
  /\ ItemsTo(BoolNames) # {}
  /\ Len(heap[df].rows) = 4
  /\ Column(heap[result.out], c_name)
       = <<BoolV(TRUE), BoolV(FALSE), None, BoolV(TRUE)>>

\* the items of dtype_map that name no column of the table
AbsentItems ==
  {k \in 1..Len(dtype_map) : ~HasColumn(heap[df], dtype_map[k].col)}

\* the call is over
Done == pc \in {"returned", "raised"}

\* the column item k names is, in the working copy, the conversion of the
\* input's column to the item's target
IsConverted(k) ==
  LET c  == dtype_map[k].col
      cv == CoerceColumn(Column(heap[df], c), heap[df].dtypes[c],
                         dtype_map[k].target)
  IN  /\ cv.kind = "ok"
      /\ Column(heap[out_df], c) = cv.values
      /\ heap[out_df].dtypes[c] = cv.dtype

C22_WitnessIgnore ==
  /\ pc = "returned"
  /\ Len(dtype_map) = 2
  /\ AbsentItems = {1}
  /\ heap[result.out] # heap[df]

----------------------------------------------------------------------------
(* The inputs for node kinds and error order: leaves with each key present *)
(* or absent, groups holding invalid children, nodes with keys of two      *)
(* kinds                                                                   *)

\* marks a key the node does not have
Absent == [t |-> "absent", v |-> 0]

\* the dict with the keys of f whose value is not Absent
DictOf(f) == DictV([k \in {j \in DOMAIN f : f[j] # Absent} |-> f[k]])

MkLeaf(col, op, value) ==
  DictOf((k_col :> col) @@ (k_op :> op) @@ (k_value :> value))

\* true on every row, false on every row
L_all == LeafNode(StrV(c_age), StrV(op_ge), IntV(0))

L_none == LeafNode(StrV(c_age), StrV(op_gt), IntV(1000))

KindTables == TextTables \cup {d \in PeopleTables : Len(d.rows) = 2}

OrderLeaves ==
  {MkLeaf(c, o, v) :
     c \in {Absent, StrV(c_zzz), StrV(c_age)},
     o \in {Absent, s_bogus, StrV(op_ge), StrV(op_between), StrV(op_in),
            StrV(op_contains)},
     v \in {Absent, IntV(10), ListV(<<IntV(5)>>)}}

BoundsLeaves ==
  {LeafNode(StrV(c), StrV(op_between), v) :
     c \in {c_age, c_name},
     v \in {ListV(<<s_Bob, s_bo>>), ListV(<<s_bo, s_Bob>>),
            ListV(<<IntV(5), s_Bob>>), ListV(<<IntV(5), IntV(10)>>),
            ListV(<<IntV(5)>>), IntV(10), s_Bob}}

\* children that give masks, and two that raise different errors
KindChildren == {L_all, L_none, L_null, L_zzz, IntV(7)}

ChildrenNodes == Groups(KindChildren) \cup NotLists(KindChildren)

GroupBases ==
  { (k_and :> ListV(<<L_all, L_null>>)), (k_or :> ListV(<<L_none, L_null>>)),
    (k_and :> ListV(<<L_zzz>>)), (k_AND :> ListV(<<L_null>>)),
    (k_And :> ListV(<<L_all>>)), (k_or :> ListV(<<>>)) }

NotBases ==
  { (k_not :> L_null), (k_not :> ListV(<<L_all, L_null>>)),
    (k_not :> L_zzz), (k_NOT :> L_all), (k_Not :> L_all),
    (k_not :> IntV(7)) }

LeafExtras ==
  { (k_col :> StrV(c_age)) @@ (k_op :> StrV(op_ge)) @@ (k_value :> IntV(10)),
    (k_col :> StrV(c_zzz)) @@ (k_op :> s_bogus),
    (k_value :> IntV(7)),
    (k_op :> StrV(op_isnull)) }

NotExtras ==
  { (k_not :> L_none), (k_not :> IntV(7)), (k_not :> ListV(<<>>)),
    (k_not :> L_zzz) @@ (k_col :> StrV(c_name)) @@ (k_op :> StrV(op_isnull)),
    (k_not :> IntV(7)) @@ (k_col :> StrV(c_zzz)) @@ (k_op :> s_bogus) }

MixedNodes ==
  {DictV(g @@ e) : g \in GroupBases, e \in LeafExtras \cup NotExtras}
  \cup {DictV(n @@ e) : n \in NotBases, e \in LeafExtras}
  \cup {DictV(g) : g \in GroupBases \cup NotBases}

KindFilters ==
  OrderLeaves \cup BoundsLeaves \cup ChildrenNodes \cup MixedNodes

InitKinds ==
  /\ df \in KindTables
  /\ filters \in KindFilters
  /\ case_insensitive \in BOOLEAN
  /\ pc = "ready"
  /\ result = NoResult
  /\ heap = <<>>
  /\ out_df = 0
  /\ dtype_map = <<>>
  /\ on_missing = "ignore"
  /\ item = 0
  /\ raw_val = None
  /\ NoWidgets

SpecKinds == InitKinds /\ [][Next]_vars

----------------------------------------------------------------------------
(* 'between' with bounds of another type than the column *)

IsPair(val) == val.t = "list" /\ Len(val.v) = 2

\* the leaf is a 'between' on a column of integers with a [low, high] pair
\* of which a bound is text: the bound cannot be ordered against the cells
HasUnorderableBounds ==
  /\ IsLeafWith(_RANGE_OPS)
  /\ LeafDtype = "int64"
  /\ IsPair(Get(filters, k_value))
  /\ \E j \in 1..2 : Get(filters, k_value).v[j].t = "str"

\* C23: a 'between' leaf whose bounds cannot be ordered against the
\* column's values (text bounds on an integer column) fails with a
\* ValueError, the error kind of a 'between' value that is not a pair.
C23_UnorderableBoundsAreValueError ==
  HasUnorderableBounds => result.kind = "ValueError"

\* what the code does instead: the comparison's own TypeError escapes
C23_UnorderableBoundsEscapeAsTypeError ==
  HasUnorderableBounds => result.kind = "TypeError"

C23_Witness ==
  /\ HasUnorderableBounds
  /\ Get(filters, k_value) = ListV(<<s_Bob, s_bo>>)
  /\ result.kind = "TypeError"

\* the non-pair value, for comparison, is a ValueError
C23_NonPairWitness ==
  /\ IsLeafWith(_RANGE_OPS)
  /\ ~IsPair(Get(filters, k_value))
  /\ result.kind = "ValueError"

----------------------------------------------------------------------------
(* Children of a group and of a list-form negation *)

\* the key under which the node keeps its list of children
ListKey(node) ==
  IF k_and \in NormKeys(node) THEN k_and
  ELSE IF k_or \in NormKeys(node) THEN k_or
  ELSE k_not

\* _eval_node was called on a group or on a list-form negation with a
\* non-empty list of children
HasChildList ==
  /\ pc = "evaluated"
  /\ filters.t = "dict"
  /\ NormKeys(filters) \cap {k_and, k_or, k_not} # {}
  /\ ~(k_and \in NormKeys(filters) /\ k_or \in NormKeys(filters))
  /\ KeyOrUpper(filters, ListKey(filters)).t = "list"
  /\ KeyOrUpper(filters, ListKey(filters)).v # <<>>

ChildList == KeyOrUpper(filters, ListKey(filters)).v

\* what _eval_node gives child j on its own
ChildResult(j) == _eval_node(df, ChildList[j], case_insensitive)

InvalidChildren == {j \in 1..Len(ChildList) : ChildResult(j).kind # "ok"}

RECURSIVE VisitedUpTo(_)
\* the calls made for children 1..n, in order
VisitedUpTo(n) ==
  IF n = 0 THEN <<>> ELSE VisitedUpTo(n - 1) \o ChildResult(n).visited

\* the masks of the children before j already fix the folded value on
\* every row: all False under AND (and NOT), all True under OR
EarlierMasksDecide(j) ==
  /\ j > 1
  /\ \A i \in 1..(j - 1) :
       /\ ChildResult(i).kind = "ok"
       /\ \A r \in Rows :
            ChildResult(i).mask[r] =
              (IF ListKey(filters) = k_or THEN "True" ELSE "False")

\* C24 as stated: every child of a group or list-form negation is
\* evaluated in list order, and an invalid child at any position aborts
\* the evaluation with that child's error and without a mask.
C24_AnyInvalidChildDecides ==
  HasChildList =>
    /\ InvalidChildren = {} =>
         result.visited = <<filters>> \o VisitedUpTo(Len(ChildList))
    /\ \A j \in InvalidChildren :
         /\ result.kind = ChildResult(j).kind
         /\ result.msg = ChildResult(j).msg
         /\ result.mask = <<>>

\* C24: the children of a group or list-form negation are evaluated in
\* list order before any folding. When all are valid, every one has been
\* evaluated; otherwise the evaluation stops at the first invalid child
\* with that child's error and without a mask, the children before it
\* having been evaluated in order and none after it, also when the masks
\* of the earlier children already determine the result.
C24_FirstInvalidChildDecides ==
  HasChildList =>
    IF InvalidChildren = {}
    THEN /\ result.kind = "ok"
         /\ result.visited = <<filters>> \o VisitedUpTo(Len(ChildList))
    ELSE LET f == CHOOSE j \in InvalidChildren :
                    \A i \in InvalidChildren : j <= i
         IN  /\ result.kind = ChildResult(f).kind
             /\ result.msg = ChildResult(f).msg
             /\ result.mask = <<>>
             /\ result.visited = <<filters>> \o VisitedUpTo(f)

\* the second child of an AND is invalid after an all-False first mask
C24_Witness ==
  /\ HasChildList
  /\ ListKey(filters) = k_and
  /\ InvalidChildren = {2}
  /\ EarlierMasksDecide(2)
  /\ result.kind = "KeyError"
  /\ result.mask = <<>>

\* the same under OR after an all-True first mask
C24_WitnessOr ==
  /\ HasChildList
  /\ ListKey(filters) = k_or
  /\ InvalidChildren = {2}
  /\ EarlierMasksDecide(2)
  /\ result.kind # "ok"

\* and in a list-form negation
C24_WitnessNot ==
  /\ HasChildList
  /\ ListKey(filters) = k_not
  /\ InvalidChildren = {2}
  /\ EarlierMasksDecide(2)
  /\ result.kind # "ok"

\* two invalid children: the first one's error is the one raised
C24_WitnessTwoInvalid ==
  /\ HasChildList
  /\ InvalidChildren = {1, 2}
  /\ ChildResult(1).kind # ChildResult(2).kind
  /\ result.kind = ChildResult(1).kind

----------------------------------------------------------------------------
(* Node kind: group before negation before leaf *)

\* the node with only the keys that normalise into ks
OnlyKeys(node, ks) ==
  DictV([k \in {j \in DOMAIN node.v : Strip(Lower(j)) \in ks} |-> node.v[k]])

\* the part of the node that decides its kind: the group keys when it has
\* one, else the 'not' key when it has one, else the whole node
DecidingPart(node) ==
  IF NormKeys(node) \cap {k_and, k_or} # {}
  THEN OnlyKeys(node, {k_and, k_or})
  ELSE IF k_not \in NormKeys(node)
  THEN OnlyKeys(node, {k_not})
  ELSE node

\* _eval_node was called on a group that also holds 'not' or leaf keys, or
\* on a negation that also holds leaf keys
HasLowerPriorityKeys ==
  /\ pc = "evaluated"
  /\ filters.t = "dict"
  /\ DecidingPart(filters) # filters

\* C25: a node holding a group key together with a 'not' key or leaf keys
\* evaluates exactly as the group alone, and a node holding 'not' together
\* with leaf keys exactly as the negation alone: same mask, or same error
\* with the same message; the lower-priority keys change nothing.
C25_HigherPriorityKeyDecides ==
  HasLowerPriorityKeys =>
    LET alone == _eval_node(df, DecidingPart(filters), case_insensitive)
    IN  /\ result.kind = alone.kind
        /\ result.mask = alone.mask
        /\ result.msg = alone.msg
        /\ Tail(result.visited) = Tail(alone.visited)

\* a group with a 'not' key that would raise on its own and leaf keys
\* naming an unknown column still gives the group's mask
C25_Witness ==
  /\ HasLowerPriorityKeys
  /\ NormKeys(filters) = {k_and, k_not, k_col, k_op}
  /\ ~Valid(OnlyKeys(filters, {k_not}))
  /\ ~Valid(OnlyKeys(filters, {k_col, k_op}))
  /\ result.kind = "ok"
  /\ \E r \in Rows : result.mask[r] = "True"
  /\ \E r \in Rows : result.mask[r] = "False"

\* a negation with leaf keys naming an unknown column gives the negation
C25_WitnessNot ==
  /\ HasLowerPriorityKeys
  /\ NormKeys(filters) = {k_not, k_col, k_op}
  /\ KeyOrUpper(filters, k_not).t = "dict"
  /\ ~Valid(OnlyKeys(filters, {k_col, k_op}))
  /\ result.kind = "ok"
  /\ \E r \in Rows : result.mask[r] = "True"
  /\ result.mask = [r \in Rows |->
                      IF MaskOf(KeyOrUpper(filters, k_not))[r] = "True"
                      THEN "False" ELSE "True"]

----------------------------------------------------------------------------
(* The order of the checks of a leaf *)

\* _eval_node was called on a node with no group and no 'not' key
IsLeafCall == pc = "evaluated" /\ IsLeafShaped(filters)

LacksColOrOp ==
  Get(filters, k_col).t = "none" \/ Get(filters, k_op).t = "none"

NamesUnknownColumn ==
  Get(filters, k_col).t = "str" /\ ~HasColumn(df, Get(filters, k_col).v)

OpIsSupported == Strip(Lower(ToStr(Get(filters, k_op)))) \in AllOps

\* the value fails the check its operator family makes: no value for a
\* set or string operator, no [low, high] pair for 'between'
ValueIsRejected ==
  LET opn == Strip(Lower(ToStr(Get(filters, k_op))))
      val == Get(filters, k_value)
  IN  \/ opn \in _SET_OPS \cup _STRING_OPS /\ val.t = "none"
      \/ opn \in _RANGE_OPS /\ ~IsPair(val)

IsMissingKeysError(r) ==
  r.kind = "ValueError" /\ r.msg.text = "Leaf rule must include 'col' and 'op'"

IsValueCheckError(r) ==
  /\ r.kind = "ValueError"
  /\ r.msg.text \in {"Operator requires a list/iterable value",
                     "Operator 'between' requires value [low, high]",
                     "Operator requires a value"}

\* C26: a leaf is checked in a fixed order: a missing 'col' or 'op' is a
\* ValueError whatever the rest; otherwise an unknown column is a KeyError
\* naming it, whatever the operator and the value; otherwise a supported
\* operator rejects its value with its own ValueError, and an unsupported
\* operator is a ValueError naming the operator.
C26_LeafChecksInOrder ==
  IsLeafCall =>
    IF LacksColOrOp THEN IsMissingKeysError(result)
    ELSE IF NamesUnknownColumn
    THEN /\ result.kind = "KeyError"
         /\ result.msg.text = "Column not found: "
         /\ result.msg.args = <<Get(filters, k_col)>>
    ELSE IF OpIsSupported
    THEN ValueIsRejected => IsValueCheckError(result)
    ELSE /\ IsUnsupportedOperatorError(result)
         /\ result.msg.args = <<Get(filters, k_op)>>

\* unknown column, unsupported operator: the column is reported
C26_Witness ==
  /\ IsLeafCall
  /\ ~LacksColOrOp
  /\ NamesUnknownColumn
  /\ ~OpIsSupported
  /\ result.kind = "KeyError"

\* unknown column, value that 'between' would reject
C26_WitnessMalformedValue ==
  /\ IsLeafCall
  /\ ~LacksColOrOp
  /\ NamesUnknownColumn
  /\ OpIsSupported
  /\ ValueIsRejected
  /\ result.kind = "KeyError"

\* no 'op', unknown column: the missing key is reported
C26_WitnessNoOp ==
  /\ IsLeafCall
  /\ Get(filters, k_op).t = "none"
  /\ NamesUnknownColumn
  /\ IsMissingKeysError(result)

\* known column: the value check and the unsupported operator
C26_WitnessValueCheck ==
  /\ IsLeafCall
  /\ ~LacksColOrOp
  /\ ~NamesUnknownColumn
  /\ OpIsSupported
  /\ ValueIsRejected
  /\ IsValueCheckError(result)

C26_WitnessUnsupported ==
  /\ IsLeafCall
  /\ ~LacksColOrOp
  /\ ~NamesUnknownColumn
  /\ ~OpIsSupported
  /\ Get(filters, k_value).t = "none"
  /\ IsUnsupportedOperatorError(result)

----------------------------------------------------------------------------
(* RoundedButton: hover, press and release on a canvas button *)

MaxEvents == 4

\* the colours the two button factories pass: PrimaryButton takes the
\* THEME entries, SecondaryButton the defaults of the constructor
PrimaryColours ==
  [bg0 |-> "#2563eb", hover_bg |-> "#1d4ed8", active_bg |-> "#1e40af"]

SecondaryColours ==
  [bg0 |-> "#1f2a44", hover_bg |-> "#2a3a5f", active_bg |-> "#334a7a"]

\* RoundedButton.__init__: the attributes the handlers read and write
RoundedButton(colours) ==
  [command |-> TRUE, bg0 |-> colours.bg0, hover_bg |-> colours.hover_bg,
   active_bg |-> colours.active_bg, _state_bg |-> colours.bg0,
   _pressed |-> FALSE]

\* _draw: the canvas is cleared and the rectangle filled with _state_bg
_draw(b) == b._state_bg

\* the old values of the variables no widget model uses
NoCalls ==
  /\ df = 0
  /\ filters = None
  /\ case_insensitive = FALSE
  /\ result = NoResult
  /\ heap = <<>>
  /\ out_df = 0
  /\ dtype_map = <<>>
  /\ on_missing = "ignore"
  /\ item = 0
  /\ raw_val = None

ovars == <<df, filters, case_insensitive, pc, result,
           heap, out_df, dtype_map, on_missing, item, raw_val>>

tvars == <<sf, tree, sf_pc>>

InitButton ==
  /\ btn \in {RoundedButton(PrimaryColours), RoundedButton(SecondaryColours)}
  /\ canvas = _draw(btn)
  /\ events = <<>>
  /\ calls = <<>>
  /\ sf = <<>>
  /\ tree = <<>>
  /\ sf_pc = "none"
  /\ pc = "button"
  /\ NoCalls

\* the event is delivered to the widget
Receive(e) ==
  /\ pc = "button"
  /\ Len(events) < MaxEvents
  /\ events' = Append(events, e)

\* _invoke: the command runs, when there is one
_invoke ==
  calls' = IF btn.command THEN Append(calls, Len(events) + 1) ELSE calls

\* <Enter>
_on_enter ==
  /\ Receive("enter")
  /\ IF ~btn._pressed
     THEN /\ btn' = [btn EXCEPT !._state_bg = btn.hover_bg]
          /\ canvas' = _draw(btn')
     ELSE UNCHANGED <<btn, canvas>>
  /\ UNCHANGED <<calls, tvars, ovars>>

\* mutant of _on_leave: the press is remembered across the leave
OnLeaveKeepsPressed ==
  /\ Receive("leave")
  /\ btn' = [btn EXCEPT !._state_bg = IF btn._pressed THEN btn.active_bg
                                      ELSE btn.bg0]
  /\ canvas' = _draw(btn')
  /\ UNCHANGED <<calls, tvars, ovars>>

\* <Leave>
_on_leave ==
  /\ Receive("leave")
  /\ btn' = [btn EXCEPT !._pressed = FALSE, !._state_bg = btn.bg0]
  /\ canvas' = _draw(btn')
  /\ UNCHANGED <<calls, tvars, ovars>>

\* <ButtonPress-1>
_on_press ==
  /\ Receive("press")
  /\ btn' = [btn EXCEPT !._pressed = TRUE, !._state_bg = btn.active_bg]
  /\ canvas' = _draw(btn')
  /\ UNCHANGED <<calls, tvars, ovars>>

\* <ButtonRelease-1>
_on_release ==
  /\ Receive("release")
  /\ IF ~btn._pressed
     THEN UNCHANGED <<btn, canvas, calls>>
     ELSE /\ btn' = [btn EXCEPT !._pressed = FALSE,
                                !._state_bg = btn.hover_bg]
          /\ canvas' = _draw(btn')
          /\ _invoke
  /\ UNCHANGED <<tvars, ovars>>

\* <space> and <Return>: the command runs, the button is not redrawn
OnKey ==
  /\ Receive("key")
  /\ _invoke
  /\ UNCHANGED <<btn, canvas, tvars, ovars>>

NextButton ==
  \/ _on_enter
  \/ _on_leave
  \/ _on_press
  \/ _on_release
  \/ OnKey

SpecButton == InitButton /\ [][NextButton]_vars

\* event i is a release that follows a press with no leave in between
IsClick(i) ==
  /\ events[i] = "release"
  /\ \E j \in 1..(i - 1) :
       /\ events[j] = "press"
       /\ \A k \in (j + 1)..(i - 1) : events[k] # "leave"

\* the events at which the command ran
Invoking == {calls[n] : n \in 1..Len(calls)}

\* C28: over any sequence of enter, leave, press and release events the
\* mouse invokes the command only on a release that follows a press with
\* no leave in between (a release after leaving, or with no press before
\* it, invokes nothing), and in every state _pressed is true exactly when
\* the background drawn on the canvas is the active colour.
C28_ClickNeedsPressWithoutLeave ==
  pc = "button" =>
    /\ \A i \in Invoking : events[i] # "key" => IsClick(i)
    /\ \A i \in 1..Len(events) :
         (events[i] = "release" /\ ~IsClick(i)) => i \notin Invoking
    /\ btn._pressed <=> (canvas = btn.active_bg)

\* press, leave, release: nothing is invoked and the base colour is drawn
C28_Witness ==
  /\ pc = "button"
  /\ events = <<"press", "leave", "release">>
  /\ calls = <<>>
  /\ ~btn._pressed
  /\ canvas = btn.bg0

\* enter, press, release: the command runs once, on the release
C28_WitnessClick ==
  /\ pc = "button"
  /\ events = <<"enter", "press", "release">>
  /\ calls = <<3>>
  /\ canvas = btn.hover_bg

\* a pressed button shows the active colour, also after an enter
C28_WitnessPressed ==
  /\ pc = "button"
  /\ events = <<"press", "enter">>
  /\ btn._pressed
  /\ canvas = btn.active_bg

----------------------------------------------------------------------------
(* TreeviewSortFilter: the rows a tree shows under column filters and a sort *)

MaxTreeRows == 2

c_item == <<"i","t","e","m">>

c_value == <<"v","a","l","u","e">>

\* list(tree["columns"]), and the types _make_table gives them
TreeColumns == <<c_item, c_value>>

_col_types == (c_item :> "str") @@ (c_value :> "num")

\* self.columns.index(col)
_col_index(col) == CHOOSE i \in 1..Len(TreeColumns) : TreeColumns[i] = col

RECURSIVE RemoveCommas(_)
\* s.replace(",", "")
RemoveCommas(s) ==
  IF s = <<>> THEN <<>>
  ELSE IF Head(s) = "," THEN RemoveCommas(Tail(s))
  ELSE <<Head(s)>> \o RemoveCommas(Tail(s))

\* float(s.replace(",", "")) inside try/except: the number in tenths, or
\* None when the text is no numeral
ParseFloat(s) ==
  LET u == Strip(RemoveCommas(s))
  IN  IF NumericText(u) THEN FloatV(FloatOfText(u)) ELSE None

_coerce_num(value) ==
  IF value.t = "none" THEN None
  ELSE LET s == Strip(ToStr(value))
       IN  IF s = <<>> THEN None ELSE ParseFloat(s)

_parse_float(s) == IF s = <<>> THEN None ELSE ParseFloat(s)

\* the two shapes of a FilterSpec
SetSpec(allowed) == [mode |-> "set", allowed |-> allowed]

RangeSpec(mn, mx) == [mode |-> "range", min |-> mn, max |-> mx]

\* one pass of the loop of apply over the rows, for one column's filter
KeepRows(rows, col, spec) ==
  LET idx == _col_index(col)
  IN  IF spec = None THEN rows
      ELSE IF spec.mode = "set"
      THEN SelectSeq(rows, LAMBDA r : ToStr(r[idx]) \in spec.allowed)
      ELSE SelectSeq(rows, LAMBDA r :
             LET v == _coerce_num(r[idx])
             IN  /\ v # None
                 /\ ~(spec.min # None /\ v.v < spec.min.v)
                 /\ ~(spec.max # None /\ v.v > spec.max.v))

RECURSIVE FilterRows(_, _, _)
\* for col, spec in self.filters.items(): the columns from the n-th on
FilterRows(rows, specs, n) ==
  IF n > Len(TreeColumns) THEN rows
  ELSE FilterRows(KeepRows(rows, TreeColumns[n], specs[TreeColumns[n]]),
                  specs, n + 1)

\* the sort key of a row: the number, or infinity, of a "num" column, the
\* lowercased text of any other; and the order of two keys
NumKey(cell) ==
  LET v == _coerce_num(cell)
  IN  IF v = None THEN <<1, 0>> ELSE <<0, v.v>>

KeyLt(col, a, b) ==
  IF _col_types[col] = "num"
  THEN LET x == NumKey(a[_col_index(col)])
           y == NumKey(b[_col_index(col)])
       IN  x[1] < y[1] \/ (x[1] = y[1] /\ x[2] < y[2])
  ELSE StrLt(Lower(ToStr(a[_col_index(col)])),
             Lower(ToStr(b[_col_index(col)])))

\* x is placed before the first row that must follow it
InsertRow(x, ys, col, reverse) ==
  LET after == {i \in 1..Len(ys) :
                  IF reverse THEN KeyLt(col, ys[i], x) ELSE KeyLt(col, x, ys[i])}
      p     == IF after = {} THEN Len(ys) + 1
               ELSE CHOOSE i \in after : \A j \in after : i <= j
  IN  SubSeq(ys, 1, p - 1) \o <<x>> \o SubSeq(ys, p, Len(ys))

RECURSIVE SortRows(_, _, _)
\* sorted(rows, key=..., reverse=...): stable, so rows of equal key keep
\* their order in both directions
SortRows(rows, col, reverse) ==
  IF rows = <<>> THEN <<>>
  ELSE InsertRow(rows[Len(rows)],
                 SortRows(SubSeq(rows, 1, Len(rows) - 1), col, reverse),
                 col, reverse)

\* sort_state.get(col, True)
SortAsc(s, col) ==
  IF col \in DOMAIN s.sort_state THEN s.sort_state[col] ELSE TRUE

\* mutant of apply: a row is kept when it passes the filter of some column
ApplyAnyFilter(s) ==
  LET active == {c \in DOMAIN s.filters : s.filters[c] # None}
      rows   == IF active = {} THEN s._all_rows
                ELSE SelectSeq(s._all_rows, LAMBDA r :
                       \E c \in active :
                         KeepRows(<<r>>, c, s.filters[c]) # <<>>)
  IN  IF s._last_sort_col = None THEN rows
      ELSE SortRows(rows, s._last_sort_col.v,
                    ~SortAsc(s, s._last_sort_col.v))

\* apply: the rows inserted into the emptied tree
apply(s) ==
  LET rows == FilterRows(s._all_rows, s.filters, 1)
  IN  IF s._last_sort_col = None THEN rows
      ELSE SortRows(rows, s._last_sort_col.v,
                    ~SortAsc(s, s._last_sort_col.v))

\* unique_values_for_col of the filter popup: the texts of the column in the
\* rows that pass the filters of the other columns
unique_values_for_col(s, col) ==
  LET base_rows == FilterRows(s._all_rows, [s.filters EXCEPT ![col] = None], 1)
  IN  {ToStr(base_rows[i][_col_index(col)]) : i \in 1..Len(base_rows)}

\* TreeviewSortFilter.__init__
TreeviewSortFilter ==
  [_all_rows |-> <<>>, filters |-> [c \in {c_item, c_value} |-> None],
   sort_state |-> <<>>, _last_sort_col |-> None]

\* the rows given to set_data and the texts typed into Min and Max
row_a == <<s_Bob, IntV(5)>>

row_b == <<s_bo, StrV(<<"1",",","0">>)>>

row_c == <<s_Bob, None>>

RowLists == SeqsUpTo({row_a, row_b, row_c}, MaxTreeRows)

RangeTexts == {<<>>, <<"7">>}

\* sf_pc: the method that ran last and the argument of the latest set_data
Ran(method, data) == [method |-> method, data |-> data]

InitTree ==
  /\ sf = TreeviewSortFilter
  /\ tree = <<>>
  /\ sf_pc = Ran("__init__", <<>>)
  /\ btn = <<>>
  /\ canvas = ""
  /\ events = <<>>
  /\ calls = <<>>
  /\ pc = "tree"
  /\ NoCalls

bvars == <<btn, canvas, events, calls>>

set_data ==
  /\ pc = "tree"
  /\ \E rows \in RowLists :
       /\ sf' = [sf EXCEPT !._all_rows = rows]
       /\ sf_pc' = Ran("set_data", rows)
  /\ tree' = apply(sf')
  /\ UNCHANGED <<bvars, ovars>>

clear_all_filters ==
  /\ pc = "tree"
  /\ sf' = [sf EXCEPT !.filters = [c \in DOMAIN sf.filters |-> None]]
  /\ tree' = apply(sf')
  /\ sf_pc' = Ran("clear_all_filters", sf_pc.data)
  /\ UNCHANGED <<bvars, ovars>>

toggle_sort ==
  /\ pc = "tree"
  /\ \E col \in {c_item, c_value} :
       sf' = IF sf._last_sort_col = StrV(col)
             THEN [sf EXCEPT !.sort_state =
                     (col :> ~SortAsc(sf, col)) @@ sf.sort_state]
             ELSE [sf EXCEPT !._last_sort_col = StrV(col),
                             !.sort_state = (col :> TRUE) @@ sf.sort_state]
  /\ tree' = apply(sf')
  /\ sf_pc' = Ran("toggle_sort", sf_pc.data)
  /\ UNCHANGED <<bvars, ovars>>

\* the Apply button of the filter popup of a column, with the search box
\* empty: on a "num" column the user picks Range and types Min and Max, on
\* any other column the values are picked from the list
apply_filter ==
  /\ pc = "tree"
  /\ \E col \in {c_item, c_value} :
       \/ /\ _col_types[col] = "num"
          /\ \E min_var \in RangeTexts, max_var \in RangeTexts :
               LET mn == _parse_float(Strip(min_var))
                   mx == _parse_float(Strip(max_var))
               IN  sf' = [sf EXCEPT !.filters[col] =
                            IF mn = None /\ mx = None THEN None
                            ELSE RangeSpec(mn, mx)]
       \/ /\ _col_types[col] # "num"
          /\ \E selected \in SUBSET unique_values_for_col(sf, col) :
                sf' = [sf EXCEPT !.filters[col] =
                         IF selected = {}
                            \/ selected = unique_values_for_col(sf, col)
                         THEN None
                         ELSE SetSpec(selected)]
  /\ tree' = apply(sf')
  /\ sf_pc' = Ran("apply_filter", sf_pc.data)
  /\ UNCHANGED <<bvars, ovars>>

NextTree ==
  \/ set_data
  \/ clear_all_filters
  \/ toggle_sort
  \/ apply_filter

SpecTree == InitTree /\ [][NextTree]_vars


\* how often the row occurs in the list
Count(rows, r) == Cardinality({i \in 1..Len(rows) : rows[i] = r})

\* the row satisfies the filter of the column: its text is one of the
\* allowed ones, or it holds a number within the bounds that are set
Satisfies(r, col, spec) ==
  LET cell == r[_col_index(col)]
  IN  IF spec.mode = "set" THEN ToStr(cell) \in spec.allowed
      ELSE /\ _coerce_num(cell) # None
           /\ spec.min # None => _coerce_num(cell).v >= spec.min.v
           /\ spec.max # None => _coerce_num(cell).v <= spec.max.v

ActiveFilters == {c \in DOMAIN sf.filters : sf.filters[c] # None}

SatisfiesAll(r) == \A c \in ActiveFilters : Satisfies(r, c, sf.filters[c])

\* the tree shows, in some order, each row of data as often as data holds
\* it when the row satisfies every active filter, and no other row
ShowsFiltered(data) ==
  /\ \A i \in 1..Len(tree) : Count(data, tree[i]) > 0
  /\ \A i \in 1..Len(data) :
       Count(tree, data[i]) =
         (IF SatisfiesAll(data[i]) THEN Count(data, data[i]) ELSE 0)

\* C27: after any sequence of set_data, toggle_sort, filter assignments
\* with apply and clear_all_filters, the tree shows exactly the rows of
\* the most recent set_data that satisfy every active column filter (set
\* and range filters as a conjunction); _all_rows holds the rows of the
\* most recent set_data, so no other method has changed it; and after
\* clear_all_filters every row of _all_rows is shown.
C27_TreeShowsFilteredRows ==
  pc = "tree" =>
    /\ ShowsFiltered(sf_pc.data)
    /\ sf._all_rows = sf_pc.data
    /\ sf_pc.method = "clear_all_filters" =>
         \A i \in 1..Len(sf._all_rows) :
           Count(tree, sf._all_rows[i]) = Count(sf._all_rows, sf._all_rows[i])

\* a set filter and a range filter are active together and hide rows
C27_Witness ==
  /\ pc = "tree"
  /\ sf.filters[c_item] # None
  /\ sf.filters[c_value] # None
  /\ sf.filters[c_item].mode = "set"
  /\ sf.filters[c_value].mode = "range"
  /\ sf._last_sort_col # None
  /\ Len(sf._all_rows) = 2
  /\ Len(tree) = 1

\* each filter alone would show the row that both together hide
C27_WitnessConjunction ==
  /\ pc = "tree"
  /\ ActiveFilters = {c_item, c_value}
  /\ \E i \in 1..Len(sf._all_rows) :
       /\ Satisfies(sf._all_rows[i], c_item, sf.filters[c_item])
       /\ ~Satisfies(sf._all_rows[i], c_value, sf.filters[c_value])
  /\ \E i \in 1..Len(sf._all_rows) :
       /\ ~Satisfies(sf._all_rows[i], c_item, sf.filters[c_item])
       /\ Satisfies(sf._all_rows[i], c_value, sf.filters[c_value])
  /\ tree = <<>>

\* new data arrives while filters are active, then the filters are cleared
C27_WitnessCleared ==
  /\ pc = "tree"
  /\ sf_pc.method = "clear_all_filters"
  /\ Len(tree) = 2
  /\ tree # sf._all_rows

\* the tree is sorted descending with the missing number first
C27_WitnessSorted ==
  /\ pc = "tree"
  /\ sf._last_sort_col = StrV(c_value)
  /\ ~SortAsc(sf, c_value)
  /\ tree = <<row_c, row_b>>

====
